---------------------------- MODULE Spec2Model ----------------------------
(***************************************************************************)
(* Model of energia-faturamento: the surcharge chain (Decorator pattern,   *)
(* src/decorators/conta_decorators.py) and the pricing strategies with     *)
(* their context (Strategy pattern, src/strategies/calculo_tarifa.py), and *)
(* the rate table (Singleton pattern, src/infra/tabela_tarifaria.py) used  *)
(* by several threads, one bytecode-level step at a time.                  *)
(*                                                                         *)
(* Amounts are Python floats in the source.  They are modelled as exact    *)
(* rationals <<n, d>> in lowest terms (d > 0), so "equal" below means      *)
(* equal as real numbers, i.e. equal up to the rounding of the floats.     *)
(***************************************************************************)
EXTENDS Integers, Sequences, FiniteSets, TLC

VARIABLES
    conta,       \* the surcharge chain: <<>> or <<base, wrapper, ..., outermost wrapper>>
    erro,        \* exception raised by the last operation ("" when it returned)
    estrategia,  \* CalculadoraConta._estrategia: the bound strategy
    resultado,   \* what the last calcular_conta returned (Nenhum before / on error)
    chamadas,    \* number of times a strategy's calcular was invoked
    op,          \* the last operation and its input
    ligada,      \* history: the strategy handed to the constructor or the last rebind
    instance,    \* TabelaTarifariaManager._instance: 0 (None) or an object of objetos
    lock,        \* TabelaTarifariaManager._lock: 0 (free) or the thread holding it
    objetos,     \* every TabelaTarifariaManager object ever allocated, by identity
    threads,     \* each thread's frame: position, method, arguments, results
    relogio,     \* datetime.now(), as a count of ticks
    refsEpoca,   \* history: references handed out since the last reset_instance
    gravado,     \* history: the last single value written through a setter
    consistentes \* history: table states that held between mutations during
                 \* the exports in progress (the latest one when there is none)

varsFatura == <<conta, erro, estrategia, resultado, chamadas, op, ligada>>

varsTabela == <<instance, lock, objetos, threads, relogio, refsEpoca, gravado,
                consistentes>>

vars == <<conta, erro, estrategia, resultado, chamadas, op, ligada,
          instance, lock, objetos, threads, relogio, refsEpoca, gravado,
          consistentes>>

---------------------------------------------------------------------------
(* Bounds of the model *)

\* Most wrappers a chain is given
MaxDecoradores == 3
\* Most strategy invocations in a run
MaxChamadas == 3
\* Wrappers around the component a constructor is tried on
MaxEnvoltorios == 2
\* Threads using the rate table concurrently
NThreads == 2
\* Most TabelaTarifariaManager objects allocated in a run
MaxInstancias == 2
\* Last tick of the clock: datetime.now() is called at most this many times
MaxRelogio == 4
\* Largest numerator or denominator a modelled amount may need
MaxNum == 2000000000

---------------------------------------------------------------------------
(* Exact arithmetic standing for the float arithmetic of the source *)

Abs(x) == IF x < 0 THEN -x ELSE x

RECURSIVE GCD(_, _)
GCD(a, b) == IF b = 0 THEN a ELSE GCD(b, a % b)

\* The rational n/d (d > 0) in lowest terms
R(n, d) ==
    LET g == GCD(Abs(n), d)
    IN  <<n \div g, d \div g>>

Zero == <<0, 1>>

RAdd(a, b) ==
    LET g == GCD(a[2], b[2])
        l == (a[2] \div g) * b[2]
    IN  R(a[1] * (l \div a[2]) + b[1] * (l \div b[2]), l)

RNeg(a) == <<-a[1], a[2]>>

RSub(a, b) == RAdd(a, RNeg(b))

RMul(a, b) ==
    LET g1 == GCD(Abs(a[1]), b[2])
        g2 == GCD(Abs(b[1]), a[2])
    IN  R((a[1] \div g1) * (b[1] \div g2), (a[2] \div g2) * (b[2] \div g1))

RLt(a, b) == RSub(a, b)[1] < 0
RLe(a, b) == RSub(a, b)[1] <= 0
RMin(a, b) == IF RLt(b, a) THEN b ELSE a

\* Smallest integer >= |a|
Teto(a) == (Abs(a[1]) + a[2] - 1) \div a[2]

\* a * b, or MaxNum + 1 when the product would exceed MaxNum (a, b >= 1)
SatMul(a, b) == IF a > MaxNum \div b THEN MaxNum + 1 ELSE a * b

---------------------------------------------------------------------------
(* Dict[str, float]: insertion-ordered, as a sequence of <<key, value>> *)

Chaves(d) == {d[i][1] : i \in 1..Len(d)}

\* d[k] = v : a present key keeps its position and takes the new value,
\* a new key goes to the end
DictSet(d, k, v) ==
    IF k \in Chaves(d)
    THEN [i \in 1..Len(d) |-> IF d[i][1] = k THEN <<k, v>> ELSE d[i]]
    ELSE Append(d, <<k, v>>)

\* d[k] for a present key
DictGet(d, k) == d[CHOOSE i \in 1..Len(d) : d[i][1] = k][2]

RECURSIVE SomaAte(_, _)
SomaAte(d, n) == IF n = 0 THEN Zero ELSE RAdd(SomaAte(d, n - 1), d[n][2])

\* sum(d.values())
Soma(d) == SomaAte(d, Len(d))

---------------------------------------------------------------------------
(* Surcharge chain: src/decorators/conta_decorators.py *)

\* A chain element.  classe is the Python class; tipo is descricao_base
\* (ContaBase), tipo_bandeira or tipo_imposto; arg is valor_base (ContaBase),
\* kwh (BandeiraDecorator), valor_taxa (TaxaIluminacaoDecorator) or
\* percentual (ContribuicaoMunicipalDecorator), a rational.
No(classe, tipo, arg) == [classe |-> classe, tipo |-> tipo, arg |-> arg]

\* self of the outermost element, and self._componente
Topo(c) == c[Len(c)]
Componente(c) == SubSeq(c, 1, Len(c) - 1)

\* BandeiraDecorator.BANDEIRAS: (price per 100 kWh, display name)
BANDEIRAS ==
    [verde     |-> <<R(0, 1),   "Bandeira Verde">>,
     amarela   |-> <<R(150, 100), "Bandeira Amarela">>,
     vermelha1 |-> <<R(450, 100), "Bandeira Vermelha - Patamar 1">>,
     vermelha2 |-> <<R(700, 100), "Bandeira Vermelha - Patamar 2">>]

\* ImpostoDecorator.IMPOSTOS_DISPONIVEIS: (percentage, display name)
IMPOSTOS_DISPONIVEIS ==
    [icms       |-> <<R(18, 1),    "ICMS (18%)">>,
     pis        |-> <<R(165, 100), "PIS (1,65%)">>,
     cofins     |-> <<R(76, 10),   "COFINS (7,6%)">>,
     pis_cofins |-> <<R(925, 100), "PIS/COFINS (9,25%)">>]

Cem == R(100, 1)

\* ImpostoDecorator._percentual = percentual / 100.0
PercentualImposto(no) == RMul(IMPOSTOS_DISPONIVEIS[no.tipo][1], R(1, 100))
NomeImposto(no) == IMPOSTOS_DISPONIVEIS[no.tipo][2]
NomeBandeira(no) == BANDEIRAS[no.tipo][2]

\* ContribuicaoMunicipalDecorator._percentual = percentual / 100.0
PercentualContribuicao(no) == RMul(no.arg, R(1, 100))

\* format(x, ".1f") for x >= 0: x rounded to one decimal, ties to even
FormatarDecimal1(x) ==
    LET n10  == x[1] * 10
        q    == n10 \div x[2]
        r2   == 2 * (n10 % x[2])
        t    == IF r2 < x[2] THEN q
                ELSE IF r2 > x[2] THEN q + 1
                ELSE IF q % 2 = 0 THEN q ELSE q + 1
    IN  ToString(t \div 10) \o "." \o ToString(t % 10)

\* f"Contribuição Municipal ({self._percentual*100:.1f}%)"
NomeContribuicao(no) ==
    "Contribuição Municipal ("
        \o FormatarDecimal1(RMul(PercentualContribuicao(no), Cem)) \o "%)"

NomeTaxaIluminacao == "Taxa de Iluminação Pública"

\* BandeiraDecorator._calcular_custo_bandeira
calcular_custo_bandeira(no) ==
    RMul(RMul(no.arg, R(1, 100)), BANDEIRAS[no.tipo][1])

RECURSIVE get_valor(_)
RECURSIVE get_detalhamento(_)

\* Faulty variant of _calcular_imposto: taxes the original base amount (the
\* first breakdown entry) instead of the accumulated amount
calcular_imposto_sobre_base(c) ==
    RMul(get_detalhamento(Componente(c))[1][2], PercentualImposto(Topo(c)))

\* ImpostoDecorator._calcular_imposto
calcular_imposto(c) ==
    RMul(get_valor(Componente(c)), PercentualImposto(Topo(c)))

\* ContribuicaoMunicipalDecorator._calcular_contribuicao
calcular_contribuicao(c) ==
    RMul(get_detalhamento(Componente(c))[1][2], PercentualContribuicao(Topo(c)))

\* BandeiraDecorator.get_valor
ValorBandeira(c) ==
    RAdd(get_valor(Componente(c)), calcular_custo_bandeira(Topo(c)))

\* ImpostoDecorator.get_valor
ValorImposto(c) == RAdd(get_valor(Componente(c)), calcular_imposto(c))

\* Faulty variant of TaxaIluminacaoDecorator.get_valor: get_valor not
\* overridden, so ContaDecorator.get_valor delegates and the fee is lost
ValorTaxaDelegado(c) == get_valor(Componente(c))

\* TaxaIluminacaoDecorator.get_valor
ValorTaxa(c) == RAdd(get_valor(Componente(c)), Topo(c).arg)

\* ContribuicaoMunicipalDecorator.get_valor
ValorContribuicao(c) == RAdd(get_valor(Componente(c)), calcular_contribuicao(c))

\* get_valor of the outermost element of chain c
get_valor(c) ==
    LET no == Topo(c)
    IN  CASE no.classe = "ContaBase" -> no.arg
          [] no.classe = "BandeiraDecorator" -> ValorBandeira(c)
          [] no.classe = "ImpostoDecorator" -> ValorImposto(c)
          [] no.classe = "TaxaIluminacaoDecorator" -> ValorTaxa(c)
          [] no.classe = "ContribuicaoMunicipalDecorator" -> ValorContribuicao(c)

\* Faulty variant of BandeiraDecorator.get_detalhamento: the entry is written
\* whatever its value, as the tax wrapper does
DetalhamentoBandeiraSempre(c) ==
    DictSet(get_detalhamento(Componente(c)), NomeBandeira(Topo(c)),
            calcular_custo_bandeira(Topo(c)))

\* BandeiraDecorator.get_detalhamento
DetalhamentoBandeira(c) ==
    LET detalhes == get_detalhamento(Componente(c))
        custo_bandeira == calcular_custo_bandeira(Topo(c))
    IN  IF RLt(Zero, custo_bandeira)
        THEN DictSet(detalhes, NomeBandeira(Topo(c)), custo_bandeira)
        ELSE detalhes

\* ImpostoDecorator.get_detalhamento
DetalhamentoImposto(c) ==
    DictSet(get_detalhamento(Componente(c)), NomeImposto(Topo(c)),
            calcular_imposto(c))

\* TaxaIluminacaoDecorator.get_detalhamento
DetalhamentoTaxa(c) ==
    DictSet(get_detalhamento(Componente(c)), NomeTaxaIluminacao, Topo(c).arg)

\* ContribuicaoMunicipalDecorator.get_detalhamento
DetalhamentoContribuicao(c) ==
    DictSet(get_detalhamento(Componente(c)), NomeContribuicao(Topo(c)),
            calcular_contribuicao(c))

\* get_detalhamento of the outermost element of chain c
get_detalhamento(c) ==
    LET no == Topo(c)
    IN  CASE no.classe = "ContaBase" -> << <<no.tipo, no.arg>> >>
          [] no.classe = "BandeiraDecorator" -> DetalhamentoBandeira(c)
          [] no.classe = "ImpostoDecorator" -> DetalhamentoImposto(c)
          [] no.classe = "TaxaIluminacaoDecorator" -> DetalhamentoTaxa(c)
          [] no.classe = "ContribuicaoMunicipalDecorator" ->
                DetalhamentoContribuicao(c)

RECURSIVE get_descricao(_)
\* get_descricao of the outermost element of chain c
get_descricao(c) ==
    LET no == Topo(c)
    IN  CASE no.classe = "ContaBase" -> no.tipo
          [] no.classe = "BandeiraDecorator" ->
                get_descricao(Componente(c)) \o " + " \o NomeBandeira(no)
          [] no.classe = "ImpostoDecorator" ->
                get_descricao(Componente(c)) \o " + " \o NomeImposto(no)
          [] no.classe = "TaxaIluminacaoDecorator" ->
                get_descricao(Componente(c)) \o " + Taxa de Iluminação"
          [] no.classe = "ContribuicaoMunicipalDecorator" ->
                get_descricao(Componente(c)) \o " + Contrib. Municipal"

(* Which chains the 32-bit integers of the model can hold.  Every amount of  *)
(* chain c is a multiple of 1/Escala(c) and is at most Magnitude(c) in       *)
(* absolute value, as is the sum of the absolute contributions.              *)

\* Denominator the outermost element brings in
EscalaNo(no) ==
    CASE no.classe = "ContaBase" -> no.arg[2]
      [] no.classe = "BandeiraDecorator" -> calcular_custo_bandeira(no)[2]
      [] no.classe = "ImpostoDecorator" -> PercentualImposto(no)[2]
      [] no.classe = "TaxaIluminacaoDecorator" -> no.arg[2]
      [] no.classe = "ContribuicaoMunicipalDecorator" -> PercentualContribuicao(no)[2]

RECURSIVE Escala(_)
Escala(c) ==
    IF Len(c) = 1 THEN EscalaNo(c[1])
    ELSE SatMul(Escala(Componente(c)), EscalaNo(Topo(c)))

RECURSIVE Magnitude(_)
Magnitude(c) ==
    LET no == Topo(c)
        m  == Magnitude(Componente(c))
    IN  CASE no.classe = "ContaBase" -> Teto(no.arg)
          [] no.classe = "BandeiraDecorator" -> m + Teto(calcular_custo_bandeira(no))
          [] no.classe = "ImpostoDecorator" -> m + Teto(RMul(<<m, 1>>, PercentualImposto(no)))
          [] no.classe = "TaxaIluminacaoDecorator" -> m + Teto(no.arg)
          [] no.classe = "ContribuicaoMunicipalDecorator" ->
                m + Teto(RMul(<<m, 1>>, PercentualContribuicao(no)))

Cabe(c) ==
    LET e == Escala(c)
    IN  e <= MaxNum /\ 2 * Magnitude(c) + 1 <= MaxNum \div e

(* Inputs the chain operations are tried with *)

ValoresBase == {R(-1, 1), R(0, 1), R(100, 1)}
\* The default label, and one that is also a wrapper's label
DescricoesBase == {"Consumo de Energia", "Bandeira Amarela"}
\* (tipo_bandeira, kwh); "azul" is no key of BANDEIRAS, kwh is not validated
EntradasBandeira ==
    {<<"verde", R(200, 1)>>, <<"amarela", R(200, 1)>>, <<"amarela", R(0, 1)>>,
     <<"vermelha1", R(-100, 1)>>, <<"vermelha2", R(50, 1)>>,
     <<"azul", R(200, 1)>>}
\* "iss" is no key of IMPOSTOS_DISPONIVEIS
EntradasImposto == {"icms", "pis", "cofins", "pis_cofins", "iss"}
ValoresTaxa == {R(-1, 1), R(0, 1), R(15, 1)}
PercentuaisContribuicao == {R(-1, 1), R(0, 1), R(3, 1), R(100, 1), R(101, 1)}

\* One more constructor call may be made on conta: at most MaxDecoradores
\* decorator constructions are tried on one base
PodeTentar == Len(conta) <= MaxDecoradores

\* One more wrapper may be put around conta, and the model can hold the result
PodeDecorar(no) ==
    /\ conta # <<>>
    /\ PodeTentar
    /\ Cabe(Append(conta, no))

InalteradoTabela == UNCHANGED varsTabela

InalteradoCalc ==
    /\ UNCHANGED <<estrategia, resultado, chamadas, op, ligada>>
    /\ InalteradoTabela

\* conta = ContaBase(valor_base, descricao_base)
NovaContaBase(valor_base, descricao_base) ==
    /\ IF RLt(valor_base, Zero)
       THEN PodeTentar /\ erro' = "ValueError" /\ UNCHANGED conta
       ELSE /\ conta' = <<No("ContaBase", descricao_base, valor_base)>>
            /\ erro' = ""
    /\ InalteradoCalc

\* conta = BandeiraDecorator(conta, tipo_bandeira, kwh)
DecorarBandeira(tipo_bandeira, kwh) ==
    /\ conta # <<>>
    /\ PodeTentar
    /\ IF tipo_bandeira \notin DOMAIN BANDEIRAS
       THEN erro' = "ValueError" /\ UNCHANGED conta
       ELSE /\ PodeDecorar(No("BandeiraDecorator", tipo_bandeira, kwh))
            /\ conta' = Append(conta, No("BandeiraDecorator", tipo_bandeira, kwh))
            /\ erro' = ""
    /\ InalteradoCalc

\* conta = ImpostoDecorator(conta, tipo_imposto)
DecorarImposto(tipo_imposto) ==
    /\ conta # <<>>
    /\ PodeTentar
    /\ IF tipo_imposto \notin DOMAIN IMPOSTOS_DISPONIVEIS
       THEN erro' = "ValueError" /\ UNCHANGED conta
       ELSE /\ PodeDecorar(No("ImpostoDecorator", tipo_imposto, Zero))
            /\ conta' = Append(conta, No("ImpostoDecorator", tipo_imposto, Zero))
            /\ erro' = ""
    /\ InalteradoCalc

\* conta = TaxaIluminacaoDecorator(conta, valor_taxa)
DecorarTaxaIluminacao(valor_taxa) ==
    /\ conta # <<>>
    /\ PodeTentar
    /\ IF RLt(valor_taxa, Zero)
       THEN erro' = "ValueError" /\ UNCHANGED conta
       ELSE /\ PodeDecorar(No("TaxaIluminacaoDecorator", "", valor_taxa))
            /\ conta' = Append(conta, No("TaxaIluminacaoDecorator", "", valor_taxa))
            /\ erro' = ""
    /\ InalteradoCalc

\* Faulty variant of DecorarContribuicao: no upper limit on the percentage
DecorarContribuicaoSemLimite(percentual) ==
    /\ conta # <<>>
    /\ PodeTentar
    /\ IF RLt(percentual, Zero)
       THEN erro' = "ValueError" /\ UNCHANGED conta
       ELSE /\ PodeDecorar(No("ContribuicaoMunicipalDecorator", "", percentual))
            /\ conta' = Append(conta, No("ContribuicaoMunicipalDecorator", "", percentual))
            /\ erro' = ""
    /\ InalteradoCalc

\* conta = ContribuicaoMunicipalDecorator(conta, percentual)
DecorarContribuicao(percentual) ==
    /\ conta # <<>>
    /\ PodeTentar
    /\ IF RLt(percentual, Zero) \/ RLt(Cem, percentual)
       THEN erro' = "ValueError" /\ UNCHANGED conta
       ELSE /\ PodeDecorar(No("ContribuicaoMunicipalDecorator", "", percentual))
            /\ conta' = Append(conta, No("ContribuicaoMunicipalDecorator", "", percentual))
            /\ erro' = ""
    /\ InalteradoCalc

\* Faulty variant of criar_conta_completa: ICMS goes on before PIS/COFINS
criar_conta_completa_icms_primeiro(valor_base, kwh, tipo_bandeira, incluir_impostos, incluir_taxa_iluminacao) ==
    /\ IF RLt(valor_base, Zero) \/ tipo_bandeira \notin DOMAIN BANDEIRAS
       THEN erro' = "ValueError" /\ UNCHANGED conta
       ELSE LET base     == <<No("ContaBase", "Consumo de Energia", valor_base)>>
                bandeira == Append(base, No("BandeiraDecorator", tipo_bandeira, kwh))
                impostos == IF incluir_impostos
                            THEN bandeira \o
                                 <<No("ImpostoDecorator", "icms", Zero),
                                   No("ImpostoDecorator", "pis_cofins", Zero)>>
                            ELSE bandeira
                taxa     == IF incluir_taxa_iluminacao
                            THEN Append(impostos,
                                        No("TaxaIluminacaoDecorator", "", R(15, 1)))
                            ELSE impostos
            IN  conta' = taxa /\ erro' = ""
    /\ InalteradoCalc

\* conta = criar_conta_completa(valor_base, kwh, tipo_bandeira,
\* incluir_impostos, incluir_taxa_iluminacao): the constructors are called in
\* the order of the function body, with the defaults of ContaBase and of
\* TaxaIluminacaoDecorator; the first one that raises ends the call
criar_conta_completa(valor_base, kwh, tipo_bandeira, incluir_impostos, incluir_taxa_iluminacao) ==
    /\ IF RLt(valor_base, Zero) \/ tipo_bandeira \notin DOMAIN BANDEIRAS
       THEN erro' = "ValueError" /\ UNCHANGED conta
       ELSE LET base     == <<No("ContaBase", "Consumo de Energia", valor_base)>>
                bandeira == Append(base, No("BandeiraDecorator", tipo_bandeira, kwh))
                impostos == IF incluir_impostos
                            THEN bandeira \o
                                 <<No("ImpostoDecorator", "pis_cofins", Zero),
                                   No("ImpostoDecorator", "icms", Zero)>>
                            ELSE bandeira
                taxa     == IF incluir_taxa_iluminacao
                            THEN Append(impostos,
                                        No("TaxaIluminacaoDecorator", "", R(15, 1)))
                            ELSE impostos
            IN  conta' = taxa /\ erro' = ""
    /\ InalteradoCalc

---------------------------------------------------------------------------
(* Pricing strategies and their context: src/strategies/calculo_tarifa.py *)

\* float('inf'), the upper limit of the last tier
Inf == <<1, 0>>
EhInf(x) == x[2] = 0

\* CalculoResidencial.faixas: (limite, tarifa, descricao)
faixas ==
    << <<R(100, 1), R(50, 100), "Faixa 1 (0-100 kWh)">>,
       <<R(300, 1), R(65, 100), "Faixa 2 (101-300 kWh)">>,
       <<Inf,       R(85, 100), "Faixa 3 (>300 kWh)">> >>

\* The loop of CalculoResidencial.calcular from tier i on
RECURSIVE PercorrerFaixas(_, _, _, _, _)
PercorrerFaixas(i, valor_total, detalhes, kwh_restante, kwh_anterior) ==
    IF i > Len(faixas) \/ RLe(kwh_restante, Zero)
    THEN <<valor_total, detalhes>>
    ELSE LET limite      == faixas[i][1]
             tarifa      == faixas[i][2]
             descricao   == faixas[i][3]
             kwh_faixa   == IF EhInf(limite) THEN kwh_restante
                            ELSE RMin(kwh_restante, RSub(limite, kwh_anterior))
             valor_faixa == RMul(kwh_faixa, tarifa)
             conta_faixa == RLt(Zero, kwh_faixa)
         IN  PercorrerFaixas(
                 i + 1,
                 IF conta_faixa THEN RAdd(valor_total, valor_faixa) ELSE valor_total,
                 IF conta_faixa THEN DictSet(detalhes, descricao, valor_faixa)
                                ELSE detalhes,
                 RSub(kwh_restante, kwh_faixa),
                 limite)

\* Faulty variant of the tier loop: a tier's width is taken to be its upper
\* limit, the previous limit not subtracted
RECURSIVE PercorrerFaixasSemAnterior(_, _, _, _)
PercorrerFaixasSemAnterior(i, valor_total, detalhes, kwh_restante) ==
    IF i > Len(faixas) \/ RLe(kwh_restante, Zero)
    THEN <<valor_total, detalhes>>
    ELSE LET kwh_faixa   == IF EhInf(faixas[i][1]) THEN kwh_restante
                            ELSE RMin(kwh_restante, faixas[i][1])
             valor_faixa == RMul(kwh_faixa, faixas[i][2])
         IN  PercorrerFaixasSemAnterior(
                 i + 1,
                 RAdd(valor_total, valor_faixa),
                 DictSet(detalhes, faixas[i][3], valor_faixa),
                 RSub(kwh_restante, kwh_faixa))

CalcularResidencialSemAnterior(kwh) ==
    PercorrerFaixasSemAnterior(1, Zero, <<>>, kwh)

\* CalculoResidencial.calcular
CalcularResidencial(kwh) == PercorrerFaixas(1, Zero, <<>>, kwh, Zero)

\* CalculoComercial.tarifa_base
TarifaBaseComercial == R(75, 100)

\* Faulty variant of CalculoComercial.calcular: the 5% discount starts above
\* 300 kWh
CalcularComercialLimiar300(kwh) ==
    LET valor_base == RMul(kwh, TarifaBaseComercial)
        detalhes   == << <<"Consumo Base", valor_base>> >>
    IN  IF RLt(R(1000, 1), kwh)
        THEN LET desconto == RMul(valor_base, R(10, 100))
             IN  <<RSub(valor_base, desconto),
                   DictSet(detalhes, "Desconto (>1000 kWh)", RNeg(desconto))>>
        ELSE IF RLt(R(300, 1), kwh)
        THEN LET desconto == RMul(valor_base, R(5, 100))
             IN  <<RSub(valor_base, desconto),
                   DictSet(detalhes, "Desconto (>500 kWh)", RNeg(desconto))>>
        ELSE <<RSub(valor_base, Zero), detalhes>>

\* Faulty variant of CalculoComercial.calcular: the thresholds are inclusive
\* (kwh >= 1000, kwh >= 500)
CalcularComercialInclusivo(kwh) ==
    LET valor_base == RMul(kwh, TarifaBaseComercial)
        detalhes   == << <<"Consumo Base", valor_base>> >>
    IN  IF RLe(R(1000, 1), kwh)
        THEN LET desconto == RMul(valor_base, R(10, 100))
             IN  <<RSub(valor_base, desconto),
                   DictSet(detalhes, "Desconto (>1000 kWh)", RNeg(desconto))>>
        ELSE IF RLe(R(500, 1), kwh)
        THEN LET desconto == RMul(valor_base, R(5, 100))
             IN  <<RSub(valor_base, desconto),
                   DictSet(detalhes, "Desconto (>500 kWh)", RNeg(desconto))>>
        ELSE <<valor_base, detalhes>>

\* CalculoComercial.calcular
CalcularComercial(kwh) ==
    LET valor_base == RMul(kwh, TarifaBaseComercial)
        detalhes   == << <<"Consumo Base", valor_base>> >>
    IN  IF RLt(R(1000, 1), kwh)
        THEN LET desconto == RMul(valor_base, R(10, 100))
             IN  <<RSub(valor_base, desconto),
                   DictSet(detalhes, "Desconto (>1000 kWh)", RNeg(desconto))>>
        ELSE IF RLt(R(500, 1), kwh)
        THEN LET desconto == RMul(valor_base, R(5, 100))
             IN  <<RSub(valor_base, desconto),
                   DictSet(detalhes, "Desconto (>500 kWh)", RNeg(desconto))>>
        ELSE <<RSub(valor_base, Zero), detalhes>>

\* CalculoIndustrial.tarifa_base and tarifa_demanda
TarifaBaseIndustrial == R(60, 100)
TarifaDemanda == R(25, 1)

\* Faulty variant of CalculoIndustrial.calcular: the discount is taken on the
\* consumption amount plus the demand charge
CalcularIndustrialDescontoTotal(kwh) ==
    LET valor_consumo == RMul(kwh, TarifaBaseIndustrial)
        bruto         == RAdd(valor_consumo, TarifaDemanda)
        detalhes      == << <<"Consumo Base", valor_consumo>>,
                            <<"Tarifa de Demanda", TarifaDemanda>> >>
    IN  IF RLt(R(5000, 1), kwh)
        THEN LET desconto == RMul(bruto, R(18, 100))
             IN  <<RSub(bruto, desconto),
                   DictSet(detalhes, "Desconto Industrial (>5000 kWh)", RNeg(desconto))>>
        ELSE IF RLt(R(2000, 1), kwh)
        THEN LET desconto == RMul(bruto, R(12, 100))
             IN  <<RSub(bruto, desconto),
                   DictSet(detalhes, "Desconto Industrial (>2000 kWh)", RNeg(desconto))>>
        ELSE <<bruto, detalhes>>

\* CalculoIndustrial.calcular
CalcularIndustrial(kwh) ==
    LET valor_consumo == RMul(kwh, TarifaBaseIndustrial)
        detalhes      == << <<"Consumo Base", valor_consumo>>,
                            <<"Tarifa de Demanda", TarifaDemanda>> >>
    IN  IF RLt(R(5000, 1), kwh)
        THEN LET desconto == RMul(valor_consumo, R(18, 100))
             IN  <<RAdd(RSub(valor_consumo, desconto), TarifaDemanda),
                   DictSet(detalhes, "Desconto Industrial (>5000 kWh)", RNeg(desconto))>>
        ELSE IF RLt(R(2000, 1), kwh)
        THEN LET desconto == RMul(valor_consumo, R(12, 100))
             IN  <<RAdd(RSub(valor_consumo, desconto), TarifaDemanda),
                   DictSet(detalhes, "Desconto Industrial (>2000 kWh)", RNeg(desconto))>>
        ELSE <<RAdd(RSub(valor_consumo, Zero), TarifaDemanda), detalhes>>

\* The strategy objects, by class
Estrategias == {"CalculoResidencial", "CalculoComercial", "CalculoIndustrial"}

\* estrategia.calcular(kwh): (valor_total, detalhes)
calcular(e, kwh) ==
    CASE e = "CalculoResidencial" -> CalcularResidencial(kwh)
      [] e = "CalculoComercial"   -> CalcularComercial(kwh)
      [] e = "CalculoIndustrial"  -> CalcularIndustrial(kwh)

\* estrategia.get_descricao()
DescricaoEstrategia(e) ==
    CASE e = "CalculoResidencial" -> "Residencial - Tarifação Progressiva"
      [] e = "CalculoComercial"   -> "Comercial - Tarifa Fixa com Desconto por Volume"
      [] e = "CalculoIndustrial"  -> "Industrial - Tarifa Especial com Demanda"

\* Nothing returned
Nenhum == <<>>

\* Consumptions calcular_conta is tried with (kWh)
Consumos ==
    {R(-50, 1), R(-1, 100), R(0, 1), R(1, 2), R(50, 1), R(100, 1), R(201, 2),
     R(101, 1), R(200, 1), R(300, 1), R(301, 1), R(400, 1), R(500, 1), R(501, 1),
     R(600, 1), R(1000, 1), R(1001, 1), R(1500, 1), R(2000, 1), R(2001, 1),
     R(3000, 1), R(5000, 1), R(5001, 1), R(6000, 1)}

Operacao(nome, kwh) == [nome |-> nome, kwh |-> kwh]

InalteradoCadeia ==
    /\ UNCHANGED conta
    /\ InalteradoTabela

\* Faulty variant of set_estrategia: the new strategy is not stored
set_estrategia_sem_efeito(e) ==
    /\ UNCHANGED estrategia
    /\ ligada' = e
    /\ op' = Operacao("set_estrategia", Zero)
    /\ erro' = ""
    /\ UNCHANGED <<resultado, chamadas>>
    /\ InalteradoCadeia

\* CalculadoraConta.set_estrategia
set_estrategia(e) ==
    /\ estrategia' = e
    /\ ligada' = e
    /\ op' = Operacao("set_estrategia", Zero)
    /\ erro' = ""
    /\ UNCHANGED <<resultado, chamadas>>
    /\ InalteradoCadeia

\* Faulty variant of calcular_conta: the kwh < 0 check is missing
calcular_conta_sem_validacao(kwh) ==
    /\ op' = Operacao("calcular_conta", kwh)
    /\ chamadas < MaxChamadas
    /\ chamadas' = chamadas + 1
    /\ resultado' = <<calcular(estrategia, kwh)[1],
                      calcular(estrategia, kwh)[2],
                      DescricaoEstrategia(estrategia)>>
    /\ erro' = ""
    /\ UNCHANGED <<estrategia, ligada>>
    /\ InalteradoCadeia

\* CalculadoraConta.calcular_conta
calcular_conta(kwh) ==
    /\ op' = Operacao("calcular_conta", kwh)
    /\ IF RLt(kwh, Zero)
       THEN /\ erro' = "ValueError"
            /\ resultado' = Nenhum
            /\ UNCHANGED chamadas
       ELSE /\ chamadas < MaxChamadas
            /\ chamadas' = chamadas + 1
            /\ resultado' = <<calcular(estrategia, kwh)[1],
                              calcular(estrategia, kwh)[2],
                              DescricaoEstrategia(estrategia)>>
            /\ erro' = ""
    /\ UNCHANGED <<estrategia, ligada>>
    /\ InalteradoCadeia

---------------------------------------------------------------------------
(* The rate table: src/infra/tabela_tarifaria.py *)

\* _carregar_tarifas_padrao
carregar_tarifas_padrao ==
    << <<"residencial_faixa1", R(50, 100)>>,
       <<"residencial_faixa2", R(65, 100)>>,
       <<"residencial_faixa3", R(85, 100)>>,
       <<"comercial_base", R(75, 100)>>,
       <<"industrial_base", R(60, 100)>>,
       <<"industrial_demanda", R(25, 1)>> >>

\* _carregar_bandeiras_padrao
carregar_bandeiras_padrao ==
    << <<"verde", R(0, 1)>>,
       <<"amarela", R(150, 100)>>,
       <<"vermelha1", R(450, 100)>>,
       <<"vermelha2", R(700, 100)>> >>

\* datetime.now().strftime("%m/%Y") at construction
MesAtual == "11/2026"

\* datetime.isoformat of the timestamp taken at tick d
isoformat(d) == "2026-11-06T00:00:0" \o ToString(d)

\* The identities of the two dict objects a table or a configuration refers
\* to: 0 is an object nobody else refers to, two references with the same
\* identity other than 0 are one object
SemPartilha == [tarifas |-> 0, bandeiras |-> 0]

\* object.__new__: an object with no attribute yet
ObjetoNovo ==
    [tem |-> {}, tarifas |-> <<>>, bandeiras |-> <<>>,
     mes_referencia |-> "", data_atualizacao |-> 0, ids |-> SemPartilha]

\* hasattr(objetos[o], a)
hasattr(o, a) == a \in objetos[o].tem

\* The four attributes an initialised table has, besides _initialized
Atributos == {"_tarifas", "_bandeiras", "_mes_referencia", "_data_atualizacao"}

\* The content of the table object ob
EstadoDe(ob) ==
    [mes_referencia |-> ob.mes_referencia,
     data_atualizacao |-> ob.data_atualizacao,
     tarifas |-> ob.tarifas,
     bandeiras |-> ob.bandeiras]

\* The content of the table objetos[o]
Estado(o) == EstadoDe(objetos[o])

\* A configuration dict: campos are the keys it has
SnapVazio ==
    [campos |-> {}, mes_referencia |-> "", data_atualizacao |-> "",
     tarifas |-> <<>>, bandeiras |-> <<>>, nao_mapeamentos |-> {},
     ids |-> SemPartilha]

\* The dict exportar_configuracao builds from the table content e
Exportado(e) ==
    [campos |-> {"mes_referencia", "data_atualizacao", "tarifas", "bandeiras"},
     mes_referencia |-> e.mes_referencia,
     data_atualizacao |-> isoformat(e.data_atualizacao),
     tarifas |-> e.tarifas,
     bandeiras |-> e.bandeiras,
     nao_mapeamentos |-> {},
     ids |-> SemPartilha]

\* A reference to a dict object: its content and its identity
Mapa(valor, id) == [tem |-> TRUE, valor |-> valor, id |-> id]

\* No dict held
MapaNenhum == [tem |-> FALSE, valor |-> <<>>, id |-> 0]

NadaGravado == [campo |-> "", chave |-> "", valor |-> Zero, txt |-> "", ref |-> 0]

\* A thread that is not inside a call and has made none
ThreadOcioso ==
    [pc |-> "ocioso", metodo |-> "", self |-> 0,
     chave |-> "", valor |-> Zero, mes |-> "", dados |-> SnapVazio,
     ref |-> 0, ret |-> Zero, txt |-> "", snap |-> SnapVazio, exc |-> "",
     refs |-> {}, antes |-> ObjetoNovo, mapa |-> MapaNenhum]
\* antes is history: the table as importar_configuracao found it; mapa is
\* the dict the caller got from get_todas_tarifas, get_todas_bandeiras or
\* get_detalhamento

\* The frame of thread t entering method m on self at position pc; the
\* references, the snapshot and the dict it holds stay with it
Quadro(t, m, self, pc) ==
    [ThreadOcioso EXCEPT !.pc = pc, !.metodo = m, !.self = self,
                         !.refs = threads[t].refs, !.snap = threads[t].snap,
                         !.mapa = threads[t].mapa]

Ocioso(t) == threads[t].pc = "ocioso"

\* Thread t is at position pc of method m
Em(t, m, pc) == threads[t].metodo = m /\ threads[t].pc = pc

\* Thread t moves to position pc
Ir(t, pc) == threads' = [threads EXCEPT ![t].pc = pc]

\* Some thread is inside exportar_configuracao
Exportando ==
    \E t \in DOMAIN threads :
        threads[t].metodo = "exportar_configuracao" /\ ~Ocioso(t)

\* History of the table states between mutations, after object o reached
\* content e
NovoConsistente(o, e) ==
    IF Exportando
    THEN consistentes \cup {<<o, e>>}
    ELSE {<<o, e>>} \cup {c \in consistentes : c[1] # o}

InalteradoFatura == UNCHANGED varsFatura

\* The three access paths to the table
Acessos == {"TabelaTarifariaManager", "get_instance", "obter_tabela_tarifaria"}

\* Thread t calls TabelaTarifariaManager(), TabelaTarifariaManager.get_instance()
\* or obter_tabela_tarifaria()
ChamarAcesso(t, m) ==
    /\ Ocioso(t)
    /\ m \in Acessos
    /\ threads' = [threads EXCEPT ![t] =
            Quadro(t, m, 0, IF m = "TabelaTarifariaManager"
                            THEN "new_verifica" ELSE "gi_verifica")]
    /\ UNCHANGED <<instance, lock, objetos, relogio, refsEpoca, gravado, consistentes>>
    /\ InalteradoFatura

\* Thread t is inside one of the access paths
NoAcesso(t) == threads[t].metodo \in Acessos

\* get_instance: if cls._instance is None: cls()
get_instance_verifica(t) ==
    /\ NoAcesso(t) /\ threads[t].pc = "gi_verifica"
    /\ Ir(t, IF instance = 0 THEN "new_verifica" ELSE "gi_retorna")
    /\ UNCHANGED <<instance, lock, objetos, relogio, refsEpoca, gravado, consistentes>>
    /\ InalteradoFatura

\* The access path of thread t returns the reference r (0 is None)
Devolver(t, r) ==
    /\ threads' = [threads EXCEPT ![t].pc = "ocioso", ![t].ref = r,
                                  ![t].refs = IF r = 0 THEN @ ELSE @ \cup {r}]
    /\ refsEpoca' = IF r = 0 THEN refsEpoca ELSE refsEpoca \cup {r}

\* get_instance: return cls._instance
get_instance_retorna(t) ==
    /\ NoAcesso(t) /\ threads[t].pc = "gi_retorna"
    /\ Devolver(t, instance)
    /\ UNCHANGED <<instance, lock, objetos, relogio, gravado, consistentes>>
    /\ InalteradoFatura

\* __new__: the first, unlocked, if cls._instance is None
new_verifica(t) ==
    /\ NoAcesso(t) /\ threads[t].pc = "new_verifica"
    /\ Ir(t, IF instance = 0 THEN "new_adquire" ELSE "new_retorna")
    /\ UNCHANGED <<instance, lock, objetos, relogio, refsEpoca, gravado, consistentes>>
    /\ InalteradoFatura

\* __new__: with cls._lock
new_adquire(t) ==
    /\ NoAcesso(t) /\ threads[t].pc = "new_adquire"
    /\ lock = 0
    /\ lock' = t
    /\ Ir(t, "new_reverifica")
    /\ UNCHANGED <<instance, objetos, relogio, refsEpoca, gravado, consistentes>>
    /\ InalteradoFatura

\* Faulty variant of new_reverifica: no second check under the lock
new_sem_reverificar(t) ==
    /\ NoAcesso(t) /\ threads[t].pc = "new_reverifica"
    /\ Ir(t, "new_cria")
    /\ UNCHANGED <<instance, lock, objetos, relogio, refsEpoca, gravado, consistentes>>
    /\ InalteradoFatura

\* __new__: the second if cls._instance is None, under the lock
new_reverifica(t) ==
    /\ NoAcesso(t) /\ threads[t].pc = "new_reverifica"
    /\ Ir(t, IF instance = 0 THEN "new_cria" ELSE "new_libera")
    /\ UNCHANGED <<instance, lock, objetos, relogio, refsEpoca, gravado, consistentes>>
    /\ InalteradoFatura

\* __new__: cls._instance = super().__new__(cls)
new_cria(t) ==
    /\ NoAcesso(t) /\ threads[t].pc = "new_cria"
    /\ Len(objetos) < MaxInstancias
    /\ objetos' = Append(objetos, ObjetoNovo)
    /\ instance' = Len(objetos) + 1
    /\ Ir(t, "new_libera")
    /\ UNCHANGED <<lock, relogio, refsEpoca, gravado, consistentes>>
    /\ InalteradoFatura

\* __new__: leaving the with block
new_libera(t) ==
    /\ NoAcesso(t) /\ threads[t].pc = "new_libera"
    /\ lock' = 0
    /\ Ir(t, "new_retorna")
    /\ UNCHANGED <<instance, objetos, relogio, refsEpoca, gravado, consistentes>>
    /\ InalteradoFatura

\* The call cls() is over for thread t: the constructor hands its object to
\* the caller, get_instance goes on to its return statement
FimConstrutor(t, obj) ==
    IF threads[t].metodo = "TabelaTarifariaManager"
    THEN Devolver(t, obj)
    ELSE Ir(t, "gi_retorna") /\ UNCHANGED refsEpoca

\* __new__: return cls._instance; type.__call__ then runs __init__ on what
\* was returned when it is an instance of the class (None is not)
new_retorna(t) ==
    /\ NoAcesso(t) /\ threads[t].pc = "new_retorna"
    /\ IF instance = 0
       THEN FimConstrutor(t, 0)
       ELSE /\ threads' = [threads EXCEPT ![t].pc = "init_verifica",
                                          ![t].self = instance]
            /\ UNCHANGED refsEpoca
    /\ UNCHANGED <<instance, lock, objetos, relogio, gravado, consistentes>>
    /\ InalteradoFatura

\* Faulty variant of init_verifica: the hasattr guard is missing
init_sem_guarda(t) ==
    /\ NoAcesso(t) /\ threads[t].pc = "init_verifica"
    /\ Ir(t, "init_marca")
    /\ UNCHANGED <<instance, lock, objetos, relogio, refsEpoca, gravado, consistentes>>
    /\ InalteradoFatura

\* __init__: if not hasattr(self, '_initialized')
init_verifica(t) ==
    /\ NoAcesso(t) /\ threads[t].pc = "init_verifica"
    /\ IF hasattr(threads[t].self, "_initialized")
       THEN FimConstrutor(t, threads[t].self)
       ELSE Ir(t, "init_marca") /\ UNCHANGED refsEpoca
    /\ UNCHANGED <<instance, lock, objetos, relogio, gravado, consistentes>>
    /\ InalteradoFatura

\* self.<atributo> = m on the object o, m a reference to a dict
AtribuirMapa(o, atributo, campo, m) ==
    objetos' = [objetos EXCEPT ![o] =
                    [@ EXCEPT ![campo] = m.valor, !.tem = @ \cup {atributo},
                              !.ids = [@ EXCEPT ![campo] = m.id]]]

\* self.<atributo> = valor on the object o, valor a scalar or a dict made
\* for this assignment
Atribuir(o, atributo, campo, valor) ==
    IF campo \in DOMAIN SemPartilha
    THEN AtribuirMapa(o, atributo, campo, Mapa(valor, 0))
    ELSE objetos' = [objetos EXCEPT ![o] =
                        [@ EXCEPT ![campo] = valor, !.tem = @ \cup {atributo}]]

\* The identities of the dict objects that have more than one reference
IdsEmUso ==
    {objetos[o].ids[c] : o \in DOMAIN objetos, c \in DOMAIN SemPartilha}
    \cup {threads[t].mapa.id : t \in DOMAIN threads}
    \cup {threads[t].snap.ids[c] : t \in DOMAIN threads, c \in DOMAIN SemPartilha}
    \cup {threads[t].dados.ids[c] : t \in DOMAIN threads, c \in DOMAIN SemPartilha}

\* The least identity no dict object has
IdLivre ==
    CHOOSE n \in 1..(Cardinality(IdsEmUso) + 1) :
        n \notin IdsEmUso /\ \A m \in 1..(n - 1) : m \in IdsEmUso

\* A reference to the dict object with content d that already has the
\* identity id, or is given one when it had a single reference
Referencia(d, id) == Mapa(d, IF id # 0 THEN id ELSE IdLivre)

\* self.<campo> of the table objetos[o], as a reference
DoObjeto(o, campo) == Referencia(objetos[o][campo], objetos[o].ids[campo])

\* config[campo], as a reference
DaConfiguracao(c, campo) == Referencia(c[campo], c.ids[campo])

\* Faulty variant of copy: the same dict object
sem_copia(m) == m

\* dict.copy(): a new dict object with the content of m
copy(m) == Mapa(m.valor, 0)

\* The heap once the attribute campo of objetos[o] is known under identity id
Partilhado(o, campo, id) ==
    IF id = 0 THEN objetos ELSE [objetos EXCEPT ![o].ids[campo] = id]

\* The configuration c once the dict object id has content d
ConfiguracaoVendo(c, id, d) ==
    [c EXCEPT !.tarifas = IF c.ids.tarifas = id THEN d ELSE @,
              !.bandeiras = IF c.ids.bandeiras = id THEN d ELSE @]

\* What the threads ths hold once the dict object id has content d: every
\* reference to the object sees the write
ThreadsVendo(ths, id, d) ==
    IF id = 0 THEN ths
    ELSE [t \in DOMAIN ths |->
            [ths[t] EXCEPT !.mapa = IF @.id = id THEN [@ EXCEPT !.valor = d] ELSE @,
                           !.snap = ConfiguracaoVendo(@, id, d),
                           !.dados = ConfiguracaoVendo(@, id, d)]]

\* The heap once the dict object id has content d
ObjetosVendo(id, d) ==
    IF id = 0 THEN objetos
    ELSE [o \in DOMAIN objetos |->
            [objetos[o] EXCEPT
                !.tarifas = IF objetos[o].ids.tarifas = id THEN d ELSE @,
                !.bandeiras = IF objetos[o].ids.bandeiras = id THEN d ELSE @]]

\* Thread t moves to position pc after the table wrote in place into its
\* dict campo
IrGravando(t, pc, campo) ==
    threads' = ThreadsVendo([threads EXCEPT ![t].pc = pc],
                            objetos[threads[t].self].ids[campo],
                            objetos'[threads[t].self][campo])

\* __init__: self._initialized = True
init_marca(t) ==
    /\ NoAcesso(t) /\ threads[t].pc = "init_marca"
    /\ objetos' = [objetos EXCEPT ![threads[t].self].tem = @ \cup {"_initialized"}]
    /\ Ir(t, "init_tarifas")
    /\ UNCHANGED <<instance, lock, relogio, refsEpoca, gravado, consistentes>>
    /\ InalteradoFatura

\* __init__: self._tarifas = self._carregar_tarifas_padrao()
init_tarifas(t) ==
    /\ NoAcesso(t) /\ threads[t].pc = "init_tarifas"
    /\ Atribuir(threads[t].self, "_tarifas", "tarifas", carregar_tarifas_padrao)
    /\ Ir(t, "init_bandeiras")
    /\ UNCHANGED <<instance, lock, relogio, refsEpoca, gravado, consistentes>>
    /\ InalteradoFatura

\* __init__: self._bandeiras = self._carregar_bandeiras_padrao()
init_bandeiras(t) ==
    /\ NoAcesso(t) /\ threads[t].pc = "init_bandeiras"
    /\ Atribuir(threads[t].self, "_bandeiras", "bandeiras", carregar_bandeiras_padrao)
    /\ Ir(t, "init_mes")
    /\ UNCHANGED <<instance, lock, relogio, refsEpoca, gravado, consistentes>>
    /\ InalteradoFatura

\* __init__: self._mes_referencia = datetime.now().strftime("%m/%Y")
init_mes(t) ==
    /\ NoAcesso(t) /\ threads[t].pc = "init_mes"
    /\ Atribuir(threads[t].self, "_mes_referencia", "mes_referencia", MesAtual)
    /\ Ir(t, "init_data")
    /\ UNCHANGED <<instance, lock, relogio, refsEpoca, gravado, consistentes>>
    /\ InalteradoFatura

\* datetime.now() for a timestamp: the clock ticks
Agora ==
    /\ relogio < MaxRelogio
    /\ relogio' = relogio + 1

\* __init__: self._data_atualizacao = datetime.now(), and the return
init_data(t) ==
    /\ NoAcesso(t) /\ threads[t].pc = "init_data"
    /\ Agora
    /\ Atribuir(threads[t].self, "_data_atualizacao", "data_atualizacao", relogio')
    /\ FimConstrutor(t, threads[t].self)
    /\ consistentes' = NovoConsistente(threads[t].self,
                                       EstadoDe(objetos'[threads[t].self]))
    /\ UNCHANGED <<instance, lock, gravado>>
    /\ InalteradoFatura

\* One step of thread t inside an access path
PassoAcesso(t) ==
    \/ get_instance_verifica(t)
    \/ get_instance_retorna(t)
    \/ new_verifica(t)
    \/ new_adquire(t)
    \/ new_reverifica(t)
    \/ new_cria(t)
    \/ new_libera(t)
    \/ new_retorna(t)
    \/ init_verifica(t)
    \/ init_marca(t)
    \/ init_tarifas(t)
    \/ init_bandeiras(t)
    \/ init_mes(t)
    \/ init_data(t)

\* What every step of a method leaves alone besides the table itself
InalteradoClasse == UNCHANGED <<instance, refsEpoca>>

\* with self._lock
Adquirir(t, m, de, para) ==
    /\ Em(t, m, de)
    /\ lock = 0
    /\ lock' = t
    /\ Ir(t, para)
    /\ UNCHANGED <<objetos, relogio, gravado, consistentes>>
    /\ InalteradoClasse
    /\ InalteradoFatura

\* Thread t returns from its method, with the exception exc when it raises
Sair(t, exc) == threads' = [threads EXCEPT ![t].pc = "ocioso", ![t].exc = exc]

\* Faulty variant of LiberarESair: the lock is kept on the way out
SairSemLiberar(t, exc) ==
    /\ lock' = lock
    /\ Sair(t, exc)
    /\ consistentes' = NovoConsistente(threads[t].self,
                                       EstadoDe(objetos'[threads[t].self]))

\* Thread t leaves the with block of a mutator of its table and returns: the
\* lock is free and the table is between two mutations again
LiberarESair(t, exc) ==
    /\ lock' = 0
    /\ Sair(t, exc)
    /\ consistentes' = NovoConsistente(threads[t].self,
                                       EstadoDe(objetos'[threads[t].self]))

\* Faulty variant of ValorInvalido: no price is rejected
ValorSempreAceito(valor) == FALSE

\* if valor < 0: raise ValueError
ValorInvalido(valor) == RLt(valor, Zero)

\* Thread t calls self.atualizar_tarifa(tipo, valor): the validation
ChamarAtualizarTarifa(t, self, tipo, valor) ==
    /\ Ocioso(t)
    /\ self \in threads[t].refs
    /\ threads' = [threads EXCEPT ![t] =
            [Quadro(t, "atualizar_tarifa", self,
                    IF ValorInvalido(valor) THEN "ocioso" ELSE "adquire")
                EXCEPT !.chave = tipo, !.valor = valor,
                       !.exc = IF ValorInvalido(valor) THEN "ValueError" ELSE ""]]
    /\ UNCHANGED <<lock, objetos, relogio, gravado, consistentes>>
    /\ InalteradoClasse
    /\ InalteradoFatura

atualizar_tarifa_adquire(t) == Adquirir(t, "atualizar_tarifa", "adquire", "grava")

\* Faulty variant of GravarChave: the mapping is replaced by the one entry
GravarSoChave(d, k, v) == << <<k, v>> >>

\* d[k] = v on a mapping of the table
GravarChave(d, k, v) == DictSet(d, k, v)

\* atualizar_tarifa: self._tarifas[tipo] = valor
atualizar_tarifa_grava(t) ==
    /\ Em(t, "atualizar_tarifa", "grava")
    /\ IF hasattr(threads[t].self, "_tarifas")
       THEN /\ objetos' = [objetos EXCEPT ![threads[t].self].tarifas =
                                GravarChave(@, threads[t].chave, threads[t].valor)]
            /\ IrGravando(t, "data", "tarifas")
            /\ UNCHANGED <<lock, consistentes>>
       ELSE /\ UNCHANGED objetos
            /\ LiberarESair(t, "AttributeError")
    /\ UNCHANGED <<relogio, gravado>>
    /\ InalteradoClasse
    /\ InalteradoFatura

\* atualizar_tarifa: self._data_atualizacao = datetime.now(), and the return
atualizar_tarifa_data(t) ==
    /\ Em(t, "atualizar_tarifa", "data")
    /\ Agora
    /\ Atribuir(threads[t].self, "_data_atualizacao", "data_atualizacao", relogio')
    /\ LiberarESair(t, "")
    /\ gravado' = [campo |-> "tarifa", chave |-> threads[t].chave,
                   valor |-> threads[t].valor, txt |-> "", ref |-> threads[t].self]
    /\ InalteradoClasse
    /\ InalteradoFatura

\* Thread t calls self.atualizar_bandeira(cor, valor): the validation
ChamarAtualizarBandeira(t, self, cor, valor) ==
    /\ Ocioso(t)
    /\ self \in threads[t].refs
    /\ threads' = [threads EXCEPT ![t] =
            [Quadro(t, "atualizar_bandeira", self,
                    IF ValorInvalido(valor) THEN "ocioso" ELSE "adquire")
                EXCEPT !.chave = cor, !.valor = valor,
                       !.exc = IF ValorInvalido(valor) THEN "ValueError" ELSE ""]]
    /\ UNCHANGED <<lock, objetos, relogio, gravado, consistentes>>
    /\ InalteradoClasse
    /\ InalteradoFatura

atualizar_bandeira_adquire(t) == Adquirir(t, "atualizar_bandeira", "adquire", "grava")

\* atualizar_bandeira: self._bandeiras[cor] = valor
atualizar_bandeira_grava(t) ==
    /\ Em(t, "atualizar_bandeira", "grava")
    /\ IF hasattr(threads[t].self, "_bandeiras")
       THEN /\ objetos' = [objetos EXCEPT ![threads[t].self].bandeiras =
                                GravarChave(@, threads[t].chave, threads[t].valor)]
            /\ IrGravando(t, "data", "bandeiras")
            /\ UNCHANGED <<lock, consistentes>>
       ELSE /\ UNCHANGED objetos
            /\ LiberarESair(t, "AttributeError")
    /\ UNCHANGED <<relogio, gravado>>
    /\ InalteradoClasse
    /\ InalteradoFatura

\* atualizar_bandeira: self._data_atualizacao = datetime.now(), and the return
atualizar_bandeira_data(t) ==
    /\ Em(t, "atualizar_bandeira", "data")
    /\ Agora
    /\ Atribuir(threads[t].self, "_data_atualizacao", "data_atualizacao", relogio')
    /\ LiberarESair(t, "")
    /\ gravado' = [campo |-> "bandeira", chave |-> threads[t].chave,
                   valor |-> threads[t].valor, txt |-> "", ref |-> threads[t].self]
    /\ InalteradoClasse
    /\ InalteradoFatura

\* Thread t calls self.set_mes_referencia(mes)
ChamarSetMesReferencia(t, self, mes) ==
    /\ Ocioso(t)
    /\ self \in threads[t].refs
    /\ threads' = [threads EXCEPT ![t] =
            [Quadro(t, "set_mes_referencia", self, "adquire") EXCEPT !.mes = mes]]
    /\ UNCHANGED <<lock, objetos, relogio, gravado, consistentes>>
    /\ InalteradoClasse
    /\ InalteradoFatura

set_mes_referencia_adquire(t) == Adquirir(t, "set_mes_referencia", "adquire", "grava")

\* set_mes_referencia: self._mes_referencia = mes
set_mes_referencia_grava(t) ==
    /\ Em(t, "set_mes_referencia", "grava")
    /\ Atribuir(threads[t].self, "_mes_referencia", "mes_referencia", threads[t].mes)
    /\ Ir(t, "data")
    /\ UNCHANGED <<lock, relogio, gravado, consistentes>>
    /\ InalteradoClasse
    /\ InalteradoFatura

\* set_mes_referencia: self._data_atualizacao = datetime.now(), and the return
set_mes_referencia_data(t) ==
    /\ Em(t, "set_mes_referencia", "data")
    /\ Agora
    /\ Atribuir(threads[t].self, "_data_atualizacao", "data_atualizacao", relogio')
    /\ LiberarESair(t, "")
    /\ gravado' = [campo |-> "mes", chave |-> "", valor |-> Zero,
                   txt |-> threads[t].mes, ref |-> threads[t].self]
    /\ InalteradoClasse
    /\ InalteradoFatura

\* Thread t calls self.resetar_tarifas_padrao()
ChamarResetarTarifasPadrao(t, self) ==
    /\ Ocioso(t)
    /\ self \in threads[t].refs
    /\ threads' = [threads EXCEPT ![t] =
                        Quadro(t, "resetar_tarifas_padrao", self, "adquire")]
    /\ UNCHANGED <<lock, objetos, relogio, gravado, consistentes>>
    /\ InalteradoClasse
    /\ InalteradoFatura

resetar_tarifas_padrao_adquire(t) ==
    Adquirir(t, "resetar_tarifas_padrao", "adquire", "tarifas")

\* resetar_tarifas_padrao: self._tarifas = self._carregar_tarifas_padrao()
resetar_tarifas_padrao_tarifas(t) ==
    /\ Em(t, "resetar_tarifas_padrao", "tarifas")
    /\ Atribuir(threads[t].self, "_tarifas", "tarifas", carregar_tarifas_padrao)
    /\ Ir(t, "bandeiras")
    /\ UNCHANGED <<lock, relogio, gravado, consistentes>>
    /\ InalteradoClasse
    /\ InalteradoFatura

\* Faulty variant of resetar_tarifas_padrao_bandeiras: the flags are kept
resetar_tarifas_padrao_sem_bandeiras(t) ==
    /\ Em(t, "resetar_tarifas_padrao", "bandeiras")
    /\ Ir(t, "data")
    /\ UNCHANGED <<lock, objetos, relogio, gravado, consistentes>>
    /\ InalteradoClasse
    /\ InalteradoFatura

\* resetar_tarifas_padrao: self._bandeiras = self._carregar_bandeiras_padrao()
resetar_tarifas_padrao_bandeiras(t) ==
    /\ Em(t, "resetar_tarifas_padrao", "bandeiras")
    /\ Atribuir(threads[t].self, "_bandeiras", "bandeiras", carregar_bandeiras_padrao)
    /\ Ir(t, "data")
    /\ UNCHANGED <<lock, relogio, gravado, consistentes>>
    /\ InalteradoClasse
    /\ InalteradoFatura

\* resetar_tarifas_padrao: self._data_atualizacao = datetime.now(), and the
\* return
resetar_tarifas_padrao_data(t) ==
    /\ Em(t, "resetar_tarifas_padrao", "data")
    /\ Agora
    /\ Atribuir(threads[t].self, "_data_atualizacao", "data_atualizacao", relogio')
    /\ LiberarESair(t, "")
    /\ gravado' = NadaGravado
    /\ InalteradoClasse
    /\ InalteradoFatura

\* Thread t calls self.exportar_configuracao(): the dict display reads
\* self._mes_referencia first; no lock is taken
ChamarExportarConfiguracao(t, self) ==
    /\ Ocioso(t)
    /\ self \in threads[t].refs
    /\ threads' = [threads EXCEPT ![t] =
            IF hasattr(self, "_mes_referencia")
            THEN [Quadro(t, "exportar_configuracao", self, "data")
                    EXCEPT !.snap = [SnapVazio EXCEPT
                        !.campos = {"mes_referencia"},
                        !.mes_referencia = objetos[self].mes_referencia]]
            ELSE [Quadro(t, "exportar_configuracao", self, "ocioso")
                    EXCEPT !.snap = SnapVazio, !.exc = "AttributeError"]]
    /\ UNCHANGED <<lock, objetos, relogio, gravado, consistentes>>
    /\ InalteradoClasse
    /\ InalteradoFatura

\* Thread t, inside exportar_configuracao at position de, reads one attribute
\* into the dict it is building and goes to position para
LerParaExportar(t, de, para, atributo, campo, valor) ==
    /\ Em(t, "exportar_configuracao", de)
    /\ threads' = [threads EXCEPT ![t] =
            IF hasattr(threads[t].self, atributo)
            THEN [@ EXCEPT !.pc = para,
                           !.snap = [@ EXCEPT ![campo] = valor,
                                             !.campos = @ \cup {campo}]]
            ELSE [@ EXCEPT !.pc = "ocioso", !.snap = SnapVazio,
                           !.exc = "AttributeError"]]
    /\ UNCHANGED <<lock, objetos, relogio, gravado, consistentes>>
    /\ InalteradoClasse
    /\ InalteradoFatura

\* Thread t, inside exportar_configuracao at position de, puts a copy of one
\* dict attribute into the dict it is building and goes to position para
CopiarParaExportar(t, de, para, atributo, campo) ==
    /\ Em(t, "exportar_configuracao", de)
    /\ LET m == copy(DoObjeto(threads[t].self, campo))
       IN  IF hasattr(threads[t].self, atributo)
           THEN /\ threads' = [threads EXCEPT ![t] =
                        [@ EXCEPT !.pc = para,
                                  !.snap = [@ EXCEPT ![campo] = m.valor,
                                                    !.campos = @ \cup {campo},
                                                    !.ids = [@ EXCEPT ![campo] = m.id]]]]
                /\ objetos' = Partilhado(threads[t].self, campo, m.id)
           ELSE /\ threads' = [threads EXCEPT ![t] =
                        [@ EXCEPT !.pc = "ocioso", !.snap = SnapVazio,
                                  !.exc = "AttributeError"]]
                /\ UNCHANGED objetos
    /\ UNCHANGED <<lock, relogio, gravado, consistentes>>
    /\ InalteradoClasse
    /\ InalteradoFatura

\* exportar_configuracao: 'data_atualizacao': self._data_atualizacao.isoformat()
exportar_configuracao_data(t) ==
    LerParaExportar(t, "data", "tarifas", "_data_atualizacao", "data_atualizacao",
                    isoformat(objetos[threads[t].self].data_atualizacao))

\* exportar_configuracao: 'tarifas': self._tarifas.copy()
exportar_configuracao_tarifas(t) ==
    CopiarParaExportar(t, "tarifas", "bandeiras", "_tarifas", "tarifas")

\* exportar_configuracao: 'bandeiras': self._bandeiras.copy(), and the return
exportar_configuracao_bandeiras(t) ==
    CopiarParaExportar(t, "bandeiras", "ocioso", "_bandeiras", "bandeiras")

\* Thread t calls self.importar_configuracao(config)
ChamarImportarConfiguracao(t, self, config) ==
    /\ Ocioso(t)
    /\ self \in threads[t].refs
    /\ threads' = [threads EXCEPT ![t] =
            [Quadro(t, "importar_configuracao", self, "adquire")
                EXCEPT !.dados = config, !.antes = objetos[self]]]
    /\ UNCHANGED <<lock, objetos, relogio, gravado, consistentes>>
    /\ InalteradoClasse
    /\ InalteradoFatura

importar_configuracao_adquire(t) ==
    Adquirir(t, "importar_configuracao", "adquire", "mes")

\* Thread t, inside importar_configuracao at position de, stores the field
\* campo of config in the attribute when config has it, a dict as a copy,
\* and goes to para; a value without copy() raises AttributeError out of the
\* with block
ImportarCampo(t, de, para, atributo, campo) ==
    /\ Em(t, "importar_configuracao", de)
    /\ IF campo \in threads[t].dados.nao_mapeamentos
       THEN /\ UNCHANGED objetos
            /\ LiberarESair(t, "AttributeError")
            /\ gravado' = NadaGravado
       ELSE /\ IF campo \notin threads[t].dados.campos
               THEN UNCHANGED objetos /\ Ir(t, para)
               ELSE IF campo \in DOMAIN SemPartilha
                    THEN LET m == copy(DaConfiguracao(threads[t].dados, campo))
                         IN  /\ AtribuirMapa(threads[t].self, atributo, campo, m)
                             /\ threads' = [threads EXCEPT
                                    ![t].pc = para,
                                    ![t].dados.ids[campo] =
                                        IF m.id # 0 THEN m.id ELSE @]
                    ELSE /\ Atribuir(threads[t].self, atributo, campo,
                                     threads[t].dados[campo])
                         /\ Ir(t, para)
            /\ UNCHANGED <<lock, gravado, consistentes>>
    /\ UNCHANGED relogio
    /\ InalteradoClasse
    /\ InalteradoFatura

\* importar_configuracao: if 'mes_referencia' in config: self._mes_referencia = ...
importar_configuracao_mes(t) ==
    ImportarCampo(t, "mes", "tarifas", "_mes_referencia", "mes_referencia")

\* Faulty variant of importar_configuracao_tarifas: the rates are ignored
importar_configuracao_sem_tarifas(t) ==
    /\ Em(t, "importar_configuracao", "tarifas")
    /\ Ir(t, "bandeiras")
    /\ UNCHANGED <<lock, objetos, relogio, gravado, consistentes>>
    /\ InalteradoClasse
    /\ InalteradoFatura

\* importar_configuracao: if 'tarifas' in config: self._tarifas = ....copy()
importar_configuracao_tarifas(t) ==
    ImportarCampo(t, "tarifas", "bandeiras", "_tarifas", "tarifas")

\* importar_configuracao: if 'bandeiras' in config: self._bandeiras = ....copy()
importar_configuracao_bandeiras(t) ==
    ImportarCampo(t, "bandeiras", "data", "_bandeiras", "bandeiras")

\* Faulty variant of importar_configuracao_data: the timestamp is refreshed
\* only when the configuration has a field
importar_configuracao_data_se_mudou(t) ==
    /\ Em(t, "importar_configuracao", "data")
    /\ IF threads[t].dados.campos = {}
       THEN UNCHANGED <<objetos, relogio>>
       ELSE /\ Agora
            /\ Atribuir(threads[t].self, "_data_atualizacao", "data_atualizacao",
                        relogio')
    /\ LiberarESair(t, "")
    /\ gravado' = NadaGravado
    /\ InalteradoClasse
    /\ InalteradoFatura

\* importar_configuracao: self._data_atualizacao = datetime.now(), and the
\* return
importar_configuracao_data(t) ==
    /\ Em(t, "importar_configuracao", "data")
    /\ Agora
    /\ Atribuir(threads[t].self, "_data_atualizacao", "data_atualizacao", relogio')
    /\ LiberarESair(t, "")
    /\ gravado' = NadaGravado
    /\ InalteradoClasse
    /\ InalteradoFatura

\* Thread t calls a getter of a whole dict of self: return self.<campo>.copy()
ObterMapa(t, metodo, self, atributo, campo) ==
    /\ Ocioso(t)
    /\ self \in threads[t].refs
    /\ LET m == copy(DoObjeto(self, campo))
       IN  IF hasattr(self, atributo)
           THEN /\ threads' = [threads EXCEPT ![t] =
                        [Quadro(t, metodo, self, "ocioso") EXCEPT !.mapa = m]]
                /\ objetos' = Partilhado(self, campo, m.id)
           ELSE /\ threads' = [threads EXCEPT ![t] =
                        [Quadro(t, metodo, self, "ocioso")
                            EXCEPT !.exc = "AttributeError"]]
                /\ UNCHANGED objetos
    /\ UNCHANGED <<lock, relogio, gravado, consistentes>>
    /\ InalteradoClasse
    /\ InalteradoFatura

\* Thread t calls self.get_todas_tarifas()
get_todas_tarifas(t, self) ==
    ObterMapa(t, "get_todas_tarifas", self, "_tarifas", "tarifas")

\* Thread t calls self.get_todas_bandeiras()
get_todas_bandeiras(t, self) ==
    ObterMapa(t, "get_todas_bandeiras", self, "_bandeiras", "bandeiras")

\* Thread t calls conta.get_detalhamento(): every element builds or extends
\* a dict made by this call
ObterDetalhamento(t) ==
    /\ Ocioso(t)
    /\ conta # <<>>
    /\ threads' = [threads EXCEPT ![t] =
            [Quadro(t, "get_detalhamento", 0, "ocioso")
                EXCEPT !.mapa = Mapa(get_detalhamento(conta), 0)]]
    /\ UNCHANGED <<lock, objetos, relogio, gravado, consistentes>>
    /\ InalteradoClasse
    /\ InalteradoFatura

\* The caller t does mapa[k] = v on the dict a getter returned to it
MutarMapa(t, k, v) ==
    /\ Ocioso(t)
    /\ threads[t].mapa.tem
    /\ LET d == DictSet(threads[t].mapa.valor, k, v)
           id == threads[t].mapa.id
       IN  /\ threads' = ThreadsVendo(
                    [threads EXCEPT ![t] =
                        [Quadro(t, "mutar_mapa", 0, "ocioso")
                            EXCEPT !.mapa = [threads[t].mapa EXCEPT !.valor = d]]],
                    id, d)
           /\ objetos' = ObjetosVendo(id, d)
    /\ UNCHANGED <<lock, relogio, gravado, consistentes>>
    /\ InalteradoClasse
    /\ InalteradoFatura

\* The caller t does snapshot[campo][k] = v on the dict exportar_configuracao
\* returned to it
MutarSnapshot(t, campo, k, v) ==
    /\ Ocioso(t)
    /\ campo \in threads[t].snap.campos
    /\ LET d == DictSet(threads[t].snap[campo], k, v)
           id == threads[t].snap.ids[campo]
       IN  /\ threads' = ThreadsVendo(
                    [threads EXCEPT ![t] =
                        [Quadro(t, "mutar_snapshot", 0, "ocioso")
                            EXCEPT !.snap = [threads[t].snap EXCEPT ![campo] = d]]],
                    id, d)
           /\ objetos' = ObjetosVendo(id, d)
    /\ UNCHANGED <<lock, relogio, gravado, consistentes>>
    /\ InalteradoClasse
    /\ InalteradoFatura

\* The caller t does config[campo][k] = v on the configuration it handed to
\* the importar_configuracao that has just returned
MutarConfiguracao(t, campo, k, v) ==
    /\ Ocioso(t)
    /\ threads[t].metodo = "importar_configuracao"
    /\ threads[t].exc = ""
    /\ campo \in threads[t].dados.campos
    /\ LET d == DictSet(threads[t].dados[campo], k, v)
           id == threads[t].dados.ids[campo]
       IN  /\ threads' = ThreadsVendo(
                    [threads EXCEPT ![t] =
                        [Quadro(t, "mutar_configuracao", 0, "ocioso")
                            EXCEPT !.dados = [threads[t].dados EXCEPT ![campo] = d]]],
                    id, d)
           /\ objetos' = ObjetosVendo(id, d)
    /\ UNCHANGED <<lock, relogio, gravado, consistentes>>
    /\ InalteradoClasse
    /\ InalteradoFatura

\* Thread t calls TabelaTarifariaManager.reset_instance()
ChamarResetInstance(t) ==
    /\ Ocioso(t)
    /\ threads' = [threads EXCEPT ![t] = Quadro(t, "reset_instance", 0, "adquire")]
    /\ UNCHANGED <<lock, objetos, relogio, gravado, consistentes>>
    /\ InalteradoClasse
    /\ InalteradoFatura

reset_instance_adquire(t) == Adquirir(t, "reset_instance", "adquire", "zera")

\* Faulty variant of reset_instance_zera: the instance is kept
reset_instance_sem_zerar(t) ==
    /\ Em(t, "reset_instance", "zera")
    /\ lock' = 0
    /\ Sair(t, "")
    /\ refsEpoca' = {}
    /\ gravado' = NadaGravado
    /\ UNCHANGED <<instance, objetos, relogio, consistentes>>
    /\ InalteradoFatura

\* reset_instance: cls._instance = None, and the return
reset_instance_zera(t) ==
    /\ Em(t, "reset_instance", "zera")
    /\ instance' = 0
    /\ lock' = 0
    /\ Sair(t, "")
    /\ refsEpoca' = {}
    /\ gravado' = NadaGravado
    /\ UNCHANGED <<objetos, relogio, consistentes>>
    /\ InalteradoFatura

\* The frame of a read of the mapping d of self by key k that has returned
Lido(t, m, self, atributo, d, k) ==
    [Quadro(t, m, self, "ocioso") EXCEPT
        !.chave = k,
        !.exc = IF ~hasattr(self, atributo) THEN "AttributeError"
                ELSE IF k \notin Chaves(d) THEN "KeyError" ELSE "",
        !.ret = IF hasattr(self, atributo) /\ k \in Chaves(d)
                THEN DictGet(d, k) ELSE Zero]

\* Thread t calls self.get_tarifa(tipo)
get_tarifa(t, self, tipo) ==
    /\ Ocioso(t)
    /\ self \in threads[t].refs
    /\ threads' = [threads EXCEPT ![t] =
            Lido(t, "get_tarifa", self, "_tarifas", objetos[self].tarifas, tipo)]
    /\ UNCHANGED <<lock, objetos, relogio, gravado, consistentes>>
    /\ InalteradoClasse
    /\ InalteradoFatura

\* Thread t calls self.get_bandeira(cor)
get_bandeira(t, self, cor) ==
    /\ Ocioso(t)
    /\ self \in threads[t].refs
    /\ threads' = [threads EXCEPT ![t] =
            Lido(t, "get_bandeira", self, "_bandeiras", objetos[self].bandeiras, cor)]
    /\ UNCHANGED <<lock, objetos, relogio, gravado, consistentes>>
    /\ InalteradoClasse
    /\ InalteradoFatura

\* Thread t calls self.get_mes_referencia()
get_mes_referencia(t, self) ==
    /\ Ocioso(t)
    /\ self \in threads[t].refs
    /\ threads' = [threads EXCEPT ![t] =
            [Quadro(t, "get_mes_referencia", self, "ocioso") EXCEPT
                !.exc = IF hasattr(self, "_mes_referencia") THEN ""
                        ELSE "AttributeError",
                !.txt = IF hasattr(self, "_mes_referencia")
                        THEN objetos[self].mes_referencia ELSE ""]]
    /\ UNCHANGED <<lock, objetos, relogio, gravado, consistentes>>
    /\ InalteradoClasse
    /\ InalteradoFatura

\* One step of thread t inside a method of the table
PassoAtualizarTarifa(t) ==
    \/ atualizar_tarifa_adquire(t)
    \/ atualizar_tarifa_grava(t)
    \/ atualizar_tarifa_data(t)

PassoAtualizarBandeira(t) ==
    \/ atualizar_bandeira_adquire(t)
    \/ atualizar_bandeira_grava(t)
    \/ atualizar_bandeira_data(t)

PassoSetMesReferencia(t) ==
    \/ set_mes_referencia_adquire(t)
    \/ set_mes_referencia_grava(t)
    \/ set_mes_referencia_data(t)

PassoResetarTarifasPadrao(t) ==
    \/ resetar_tarifas_padrao_adquire(t)
    \/ resetar_tarifas_padrao_tarifas(t)
    \/ resetar_tarifas_padrao_bandeiras(t)
    \/ resetar_tarifas_padrao_data(t)

PassoExportarConfiguracao(t) ==
    \/ exportar_configuracao_data(t)
    \/ exportar_configuracao_tarifas(t)
    \/ exportar_configuracao_bandeiras(t)

PassoImportarConfiguracao(t) ==
    \/ importar_configuracao_adquire(t)
    \/ importar_configuracao_mes(t)
    \/ importar_configuracao_tarifas(t)
    \/ importar_configuracao_bandeiras(t)
    \/ importar_configuracao_data(t)

PassoResetInstance(t) ==
    \/ reset_instance_adquire(t)
    \/ reset_instance_zera(t)

(* Inputs of the table's methods *)

\* (tipo, valor) handed to atualizar_tarifa by the one caller
EntradasTarifa ==
    {<<"residencial_faixa1", R(55, 100)>>, <<"residencial_faixa1", R(-1, 1)>>,
     <<"nova_tarifa", R(0, 1)>>, <<"nova_tarifa", R(-1, 100)>>}

\* (tipo, valor) set and read back through the references to the singleton
EntradasTarifaSingleton == {<<"residencial_faixa1", R(55, 100)>>}

\* (cor, valor) handed to atualizar_bandeira
EntradasBandeiraTabela ==
    {<<"amarela", R(2, 1)>>, <<"amarela", R(-1, 1)>>, <<"roxa", R(-1, 1)>>}

\* (cor, valor) set and read back through the references to the singleton
EntradasBandeiraSingleton == {<<"amarela", R(2, 1)>>}

\* Months handed to set_mes_referencia
Meses == {"12/2026"}

\* Keys read back by get_tarifa; the second is in no table
TarifasLidas == {"residencial_faixa1", "nova_tarifa"}

\* Keys read back by get_bandeira
BandeirasLidas == {"amarela"}

\* Configurations handed to importar_configuracao, besides exported ones:
\* empty, one field each, a negative price among the rates
Configuracoes ==
    {SnapVazio,
     [SnapVazio EXCEPT !.campos = {"mes_referencia"}, !.mes_referencia = "01/2027"],
     [SnapVazio EXCEPT !.campos = {"tarifas"},
                       !.tarifas = << <<"comercial_base", R(-1, 1)>> >>],
     [SnapVazio EXCEPT !.campos = {"bandeiras"},
                       !.bandeiras = << <<"verde", R(1, 1)>> >>]}

\* A configuration with a month and with None, not a mapping, as its rates
ConfiguracoesInvalidas ==
    {[SnapVazio EXCEPT !.campos = {"mes_referencia", "tarifas"},
                       !.mes_referencia = "01/2027",
                       !.nao_mapeamentos = {"tarifas"}]}

\* (tipo, valor) handed to atualizar_tarifa by concurrent callers: fresh keys,
\* one of them written with two different prices
EntradasConcorrentes ==
    {<<"nova_a", R(10, 100)>>, <<"nova_a", R(20, 100)>>, <<"nova_b", R(30, 100)>>}

\* No table exists and no thread uses one
TabelaOciosa ==
    /\ instance = 0
    /\ lock = 0
    /\ objetos = <<>>
    /\ threads = <<>>
    /\ relogio = 0
    /\ refsEpoca = {}
    /\ gravado = NadaGravado
    /\ consistentes = {}

---------------------------------------------------------------------------
(* Specifications *)

\* No chain built yet; the calculator's variables are idle
InitCadeia ==
    /\ conta = <<>>
    /\ erro = ""
    /\ estrategia = "CalculoResidencial"
    /\ ligada = estrategia
    /\ resultado = Nenhum
    /\ chamadas = 0
    /\ op = Operacao("init", Zero)
    /\ TabelaOciosa

NextCadeia ==
    \/ \E v \in ValoresBase, d \in DescricoesBase : NovaContaBase(v, d)
    \/ \E b \in EntradasBandeira : DecorarBandeira(b[1], b[2])
    \/ \E t \in EntradasImposto : DecorarImposto(t)
    \/ \E v \in ValoresTaxa : DecorarTaxaIluminacao(v)
    \/ \E p \in PercentuaisContribuicao : DecorarContribuicao(p)

\* Building surcharge chains
SpecCadeia == InitCadeia /\ [][NextCadeia]_vars

\* A constructor call on nothing, on a base or on a chain of fewer than
\* MaxEnvoltorios wrappers
NextConstrucao ==
    \/ \E v \in ValoresBase, d \in DescricoesBase :
            Len(conta) <= MaxEnvoltorios /\ NovaContaBase(v, d)
    \/ \E b \in EntradasBandeira :
            Len(conta) <= MaxEnvoltorios /\ DecorarBandeira(b[1], b[2])
    \/ \E t \in EntradasImposto :
            Len(conta) <= MaxEnvoltorios /\ DecorarImposto(t)
    \/ \E v \in ValoresTaxa :
            Len(conta) <= MaxEnvoltorios /\ DecorarTaxaIluminacao(v)
    \/ \E p \in PercentuaisContribuicao :
            Len(conta) <= MaxEnvoltorios /\ DecorarContribuicao(p)

\* Constructing chain elements with valid and invalid parameters
SpecConstrucao == InitCadeia /\ [][NextConstrucao]_vars

\* (valor_base, kwh, tipo_bandeira) handed to criar_conta_completa; "azul"
\* is no key of BANDEIRAS
EntradasFabrica ==
    {R(-1, 1), R(0, 1), R(100, 1), R(250, 1)}
    \X {R(0, 1), R(300, 1)}
    \X {"verde", "amarela", "vermelha1", "vermelha2", "azul"}

NextFabrica ==
    \E e \in EntradasFabrica, incluir_impostos \in BOOLEAN,
       incluir_taxa_iluminacao \in BOOLEAN :
        criar_conta_completa(e[1], e[2], e[3], incluir_impostos,
                             incluir_taxa_iluminacao)

\* Chains assembled by criar_conta_completa
SpecFabrica == InitCadeia /\ [][NextFabrica]_vars

\* CalculadoraConta(estrategia) for any strategy; no chain involved
InitCalc ==
    /\ conta = <<>>
    /\ erro = ""
    /\ estrategia \in Estrategias
    /\ ligada = estrategia
    /\ resultado = Nenhum
    /\ chamadas = 0
    /\ op = Operacao("init", Zero)
    /\ TabelaOciosa

NextCalc ==
    \/ \E e \in Estrategias : set_estrategia(e)
    \/ \E k \in Consumos : calcular_conta(k)

\* Rebinding and using one CalculadoraConta
SpecCalc == InitCalc /\ [][NextCalc]_vars

\* The billing variables, idle
FaturaOciosa ==
    /\ conta = <<>>
    /\ erro = ""
    /\ estrategia = "CalculoResidencial"
    /\ ligada = estrategia
    /\ resultado = Nenhum
    /\ chamadas = 0
    /\ op = Operacao("init", Zero)

\* A fresh process with one thread: no table constructed yet
InitSingleton ==
    /\ FaturaOciosa
    /\ instance = 0
    /\ lock = 0
    /\ objetos = <<>>
    /\ threads = [t \in {1} |-> ThreadOcioso]
    /\ relogio = 0
    /\ refsEpoca = {}
    /\ gravado = NadaGravado
    /\ consistentes = {}

\* The one thread obtains references through the three access paths, sets
\* and reads values through any of them, and resets the singleton
NextSingleton ==
    \/ \E t \in DOMAIN threads, m \in Acessos : ChamarAcesso(t, m)
    \/ \E t \in DOMAIN threads : PassoAcesso(t)
    \/ \E t \in DOMAIN threads, e \in EntradasTarifaSingleton :
            \E self \in threads[t].refs : ChamarAtualizarTarifa(t, self, e[1], e[2])
    \/ \E t \in DOMAIN threads : PassoAtualizarTarifa(t)
    \/ \E t \in DOMAIN threads, e \in EntradasBandeiraSingleton :
            \E self \in threads[t].refs : ChamarAtualizarBandeira(t, self, e[1], e[2])
    \/ \E t \in DOMAIN threads : PassoAtualizarBandeira(t)
    \/ \E t \in DOMAIN threads, m \in Meses :
            \E self \in threads[t].refs : ChamarSetMesReferencia(t, self, m)
    \/ \E t \in DOMAIN threads : PassoSetMesReferencia(t)
    \/ \E t \in DOMAIN threads : ChamarResetInstance(t)
    \/ \E t \in DOMAIN threads : PassoResetInstance(t)
    \/ \E t \in DOMAIN threads, k \in TarifasLidas :
            \E self \in threads[t].refs : get_tarifa(t, self, k)
    \/ \E t \in DOMAIN threads, k \in BandeirasLidas :
            \E self \in threads[t].refs : get_bandeira(t, self, k)
    \/ \E t \in DOMAIN threads :
            \E self \in threads[t].refs : get_mes_referencia(t, self)

\* One thread using the singleton through every reference it obtained
SpecSingleton == InitSingleton /\ [][NextSingleton]_vars

\* The table as __init__ leaves it at tick 1
TabelaConstruida ==
    [tem |-> Atributos \cup {"_initialized"},
     tarifas |-> carregar_tarifas_padrao,
     bandeiras |-> carregar_bandeiras_padrao,
     mes_referencia |-> MesAtual,
     data_atualizacao |-> 1,
     ids |-> SemPartilha]

\* One thread has constructed the table and holds it
InitTabela ==
    /\ FaturaOciosa
    /\ instance = 1
    /\ lock = 0
    /\ objetos = <<TabelaConstruida>>
    /\ threads = [t \in {1} |-> [ThreadOcioso EXCEPT !.refs = {1}]]
    /\ relogio = 1
    /\ refsEpoca = {1}
    /\ gravado = NadaGravado
    /\ consistentes = {<<1, EstadoDe(TabelaConstruida)>>}

\* A call of the one thread on the table, or a step of it
NextTabela ==
    \/ \E t \in DOMAIN threads, e \in EntradasTarifa :
            \E self \in threads[t].refs : ChamarAtualizarTarifa(t, self, e[1], e[2])
    \/ \E t \in DOMAIN threads : PassoAtualizarTarifa(t)
    \/ \E t \in DOMAIN threads, e \in EntradasBandeiraTabela :
            \E self \in threads[t].refs : ChamarAtualizarBandeira(t, self, e[1], e[2])
    \/ \E t \in DOMAIN threads : PassoAtualizarBandeira(t)
    \/ \E t \in DOMAIN threads, m \in Meses :
            \E self \in threads[t].refs : ChamarSetMesReferencia(t, self, m)
    \/ \E t \in DOMAIN threads : PassoSetMesReferencia(t)
    \/ \E t \in DOMAIN threads :
            \E self \in threads[t].refs : ChamarResetarTarifasPadrao(t, self)
    \/ \E t \in DOMAIN threads : PassoResetarTarifasPadrao(t)
    \/ \E t \in DOMAIN threads :
            \E self \in threads[t].refs : ChamarExportarConfiguracao(t, self)
    \/ \E t \in DOMAIN threads : PassoExportarConfiguracao(t)
    \/ \E t \in DOMAIN threads :
            \E self \in threads[t].refs,
               c \in Configuracoes \cup ConfiguracoesInvalidas \cup {threads[t].snap} :
                ChamarImportarConfiguracao(t, self, c)
    \/ \E t \in DOMAIN threads : PassoImportarConfiguracao(t)

\* One thread mutating, exporting and importing one rate table
SpecTabela == InitTabela /\ [][NextTabela]_vars

\* A fresh process in which NThreads threads are about to access the table
InitPrimeiroAcesso ==
    /\ FaturaOciosa
    /\ instance = 0
    /\ lock = 0
    /\ objetos = <<>>
    /\ threads = [t \in 1..NThreads |-> ThreadOcioso]
    /\ relogio = 0
    /\ refsEpoca = {}
    /\ gravado = NadaGravado
    /\ consistentes = {}

\* Each thread makes one access, through any path, one step at a time
NextPrimeiroAcesso ==
    \/ \E t \in DOMAIN threads, m \in Acessos :
            threads[t].metodo = "" /\ ChamarAcesso(t, m)
    \/ \E t \in DOMAIN threads : PassoAcesso(t)

\* Concurrent first accesses to the rate table
SpecPrimeiroAcesso == InitPrimeiroAcesso /\ [][NextPrimeiroAcesso]_vars

\* Each thread makes one call, an access through any path or a
\* reset_instance, one step at a time, and reads a default rate through the
\* reference as soon as its access has handed it one
NextAcessoELeitura ==
    \/ \E t \in DOMAIN threads, m \in Acessos :
            threads[t].metodo = "" /\ ChamarAcesso(t, m)
    \/ \E t \in DOMAIN threads : PassoAcesso(t)
    \/ \E t \in DOMAIN threads : threads[t].metodo = "" /\ ChamarResetInstance(t)
    \/ \E t \in DOMAIN threads : PassoResetInstance(t)
    \/ \E t \in DOMAIN threads, k \in TarifasLidas :
            /\ threads[t].metodo \in Acessos
            /\ threads[t].ref # 0
            /\ get_tarifa(t, threads[t].ref, k)

\* Concurrent first accesses and resets, each access followed by a read
SpecAcessoELeitura == InitPrimeiroAcesso /\ [][NextAcessoELeitura]_vars

\* Each thread makes one access through any path, one step at a time, and
\* then one atualizar_tarifa with the same key and price as every other
NextAcessoEAtualizacao ==
    \/ \E t \in DOMAIN threads, m \in Acessos :
            threads[t].metodo = "" /\ ChamarAcesso(t, m)
    \/ \E t \in DOMAIN threads : PassoAcesso(t)
    \/ \E t \in DOMAIN threads, e \in EntradasTarifaSingleton :
            /\ threads[t].metodo \in Acessos
            /\ threads[t].ref # 0
            /\ ChamarAtualizarTarifa(t, threads[t].ref, e[1], e[2])
    \/ \E t \in DOMAIN threads : PassoAtualizarTarifa(t)

\* Concurrent first accesses, each followed by an update
SpecAcessoEAtualizacao == InitPrimeiroAcesso /\ [][NextAcessoEAtualizacao]_vars

\* The main thread has constructed the table and handed it to NThreads
\* threads that are about to start
InitConcorrente ==
    /\ FaturaOciosa
    /\ instance = 1
    /\ lock = 0
    /\ objetos = <<TabelaConstruida>>
    /\ threads = [t \in 1..NThreads |-> [ThreadOcioso EXCEPT !.refs = {1}]]
    /\ relogio = 1
    /\ refsEpoca = {1}
    /\ gravado = NadaGravado
    /\ consistentes = {<<1, EstadoDe(TabelaConstruida)>>}

\* Each thread makes one call on the table, one step at a time
NextConcorrente ==
    \/ \E t \in DOMAIN threads, e \in EntradasConcorrentes :
            /\ threads[t].metodo = ""
            /\ \E self \in threads[t].refs : ChamarAtualizarTarifa(t, self, e[1], e[2])
    \/ \E t \in DOMAIN threads : PassoAtualizarTarifa(t)
    \/ \E t \in DOMAIN threads :
            /\ threads[t].metodo = ""
            /\ \E self \in threads[t].refs : ChamarResetarTarifasPadrao(t, self)
    \/ \E t \in DOMAIN threads : PassoResetarTarifasPadrao(t)
    \/ \E t \in DOMAIN threads :
            /\ threads[t].metodo = ""
            /\ \E self \in threads[t].refs : ChamarExportarConfiguracao(t, self)
    \/ \E t \in DOMAIN threads : PassoExportarConfiguracao(t)
    \/ \E t \in DOMAIN threads, c \in Configuracoes :
            /\ threads[t].metodo = ""
            /\ \E self \in threads[t].refs : ChamarImportarConfiguracao(t, self, c)
    \/ \E t \in DOMAIN threads : PassoImportarConfiguracao(t)

\* Threads calling one constructed rate table concurrently
SpecConcorrente == InitConcorrente /\ [][NextConcorrente]_vars

\* (tipo, valor) handed to atualizar_tarifa by the threads: one accepted, one
\* rejected
EntradasVivacidade == {<<"nova_a", R(10, 100)>>, <<"nova_a", R(-1, 1)>>}

\* Configurations handed to importar_configuracao by the threads: one that
\* is imported, one that raises inside the with block
ConfiguracoesVivacidade ==
    {[SnapVazio EXCEPT !.campos = {"mes_referencia"}, !.mes_referencia = "01/2027"]}
    \cup ConfiguracoesInvalidas

\* Each thread makes one call, a construction, a get_instance, a reset, a
\* mutation or a read, one step at a time
NextVivacidade ==
    \/ \E t \in DOMAIN threads, m \in Acessos :
            threads[t].metodo = "" /\ ChamarAcesso(t, m)
    \/ \E t \in DOMAIN threads : PassoAcesso(t)
    \/ \E t \in DOMAIN threads : threads[t].metodo = "" /\ ChamarResetInstance(t)
    \/ \E t \in DOMAIN threads : PassoResetInstance(t)
    \/ \E t \in DOMAIN threads, e \in EntradasVivacidade :
            /\ threads[t].metodo = ""
            /\ \E self \in threads[t].refs : ChamarAtualizarTarifa(t, self, e[1], e[2])
    \/ \E t \in DOMAIN threads : PassoAtualizarTarifa(t)
    \/ \E t \in DOMAIN threads, c \in ConfiguracoesVivacidade :
            /\ threads[t].metodo = ""
            /\ \E self \in threads[t].refs : ChamarImportarConfiguracao(t, self, c)
    \/ \E t \in DOMAIN threads : PassoImportarConfiguracao(t)
    \/ \E t \in DOMAIN threads, k \in TarifasLidas :
            /\ threads[t].metodo = ""
            /\ \E self \in threads[t].refs : get_tarifa(t, self, k)

\* One step of thread t inside the call it is making
PassoDe(t) ==
    \/ PassoAcesso(t)
    \/ PassoResetInstance(t)
    \/ PassoAtualizarTarifa(t)
    \/ PassoImportarConfiguracao(t)

\* Every thread that can take a step is scheduled again
Justica == \A t \in 1..NThreads : WF_vars(PassoDe(t))

\* Threads constructing, reading, mutating and resetting concurrently, each
\* scheduled again and again
SpecVivacidade == InitConcorrente /\ [][NextVivacidade]_vars /\ Justica

\* (tipo, valor) handed to atualizar_tarifa before a bill is computed
EntradasTarifaFatura ==
    {<<"comercial_base", R(80, 100)>>, <<"residencial_faixa1", R(55, 100)>>}

\* Consumption billed after the table changed
ConsumosFatura == {R(100, 1)}

\* (tipo_bandeira, kwh) of the flag wrapper built after the table changed
EntradasBandeiraFatura == {<<"amarela", R(200, 1)>>}

\* One thread changes prices in the rate table, computes base amounts with
\* the pricing context and wraps a base of 100.00 in flag surcharges
NextFaturamento ==
    \/ \E t \in DOMAIN threads, e \in EntradasTarifaFatura :
            \E self \in threads[t].refs : ChamarAtualizarTarifa(t, self, e[1], e[2])
    \/ \E t \in DOMAIN threads : PassoAtualizarTarifa(t)
    \/ \E t \in DOMAIN threads, e \in EntradasBandeiraSingleton :
            \E self \in threads[t].refs : ChamarAtualizarBandeira(t, self, e[1], e[2])
    \/ \E t \in DOMAIN threads : PassoAtualizarBandeira(t)
    \/ \E e \in Estrategias : set_estrategia(e)
    \/ \E k \in ConsumosFatura : calcular_conta(k)
    \/ NovaContaBase(R(100, 1), "Consumo de Energia")
    \/ \E b \in EntradasBandeiraFatura : DecorarBandeira(b[1], b[2])

\* The rate table next to the pricing context and the surcharge chain
SpecFaturamento == InitTabela /\ [][NextFaturamento]_vars

\* The configuration a caller builds and hands to importar_configuracao
ConfiguracoesCopias ==
    {[SnapVazio EXCEPT !.campos = {"tarifas", "bandeiras"},
                       !.tarifas = << <<"comercial_base", R(70, 100)>> >>,
                       !.bandeiras = << <<"verde", R(1, 1)>> >>]}

\* (key, value) a caller writes into a dict it was handed
Mutacoes == {<<"intruso", R(999, 1)>>}

\* The dict fields of a configuration
CamposMapa == DOMAIN SemPartilha

\* One thread gets dicts from the table and from a chain, hands a
\* configuration to the table, and writes into the dicts it holds
NextCopias ==
    \/ \E t \in DOMAIN threads : \E self \in threads[t].refs : get_todas_tarifas(t, self)
    \/ \E t \in DOMAIN threads : \E self \in threads[t].refs : get_todas_bandeiras(t, self)
    \/ \E t \in DOMAIN threads :
            \E self \in threads[t].refs : ChamarExportarConfiguracao(t, self)
    \/ \E t \in DOMAIN threads : PassoExportarConfiguracao(t)
    \/ \E t \in DOMAIN threads :
            \E self \in threads[t].refs, c \in ConfiguracoesCopias :
                ChamarImportarConfiguracao(t, self, c)
    \/ \E t \in DOMAIN threads : PassoImportarConfiguracao(t)
    \/ \E t \in DOMAIN threads, e \in EntradasTarifaSingleton :
            \E self \in threads[t].refs : ChamarAtualizarTarifa(t, self, e[1], e[2])
    \/ \E t \in DOMAIN threads : PassoAtualizarTarifa(t)
    \/ NovaContaBase(R(100, 1), "Consumo de Energia")
    \/ DecorarTaxaIluminacao(R(15, 1))
    \/ \E t \in DOMAIN threads : ObterDetalhamento(t)
    \/ \E t \in DOMAIN threads, e \in Mutacoes : MutarMapa(t, e[1], e[2])
    \/ \E t \in DOMAIN threads, e \in Mutacoes, c \in CamposMapa :
            MutarSnapshot(t, c, e[1], e[2])
    \/ \E t \in DOMAIN threads, e \in Mutacoes, c \in CamposMapa :
            MutarConfiguracao(t, c, e[1], e[2])

\* Dicts crossing the interface of the rate table and of the chain
SpecCopias == InitTabela /\ [][NextCopias]_vars

---------------------------------------------------------------------------
(* Properties of the surcharge chain, checked under SpecCadeia *)

Classe(c) == Topo(c).classe
Decorada == Len(conta) >= 2

\* Every flag wrapper of the chain was given a consumption >= 0
ConsumoNaoNegativo ==
    \A i \in 1..Len(conta) :
        conta[i].classe = "BandeiraDecorator" => ~RLt(conta[i].arg, Zero)

\* C1: for every chain (of non-negative consumption), whatever its wrappers,
\* their order and repetition, and whatever the base label, the values of
\* get_detalhamento() sum to get_valor()
C1_SomaDetalhamentoIgualTotal ==
    (conta # <<>> /\ ConsumoNaoNegativo) =>
        Soma(get_detalhamento(conta)) = get_valor(conta)

\* 1 + the decimal rate of tax kind t
UmMaisTaxa(t) == RAdd(R(1, 1), RMul(IMPOSTOS_DISPONIVEIS[t][1], R(1, 100)))

\* C2: a tax wrapper contributes rate * (inner current total), so
\* amount(tax(C)) = amount(C) * (1 + rate); two tax wrappers r1 then r2 over a
\* base b give b * (1 + r1) * (1 + r2), and not b * (1 + r1 + r2) when b > 0
C2_ImpostoSobreAcumulado ==
    (Decorada /\ Classe(conta) = "ImpostoDecorator") =>
        LET interno == Componente(conta)
            r2      == PercentualImposto(Topo(conta))
        IN  /\ calcular_imposto(conta) = RMul(r2, get_valor(interno))
            /\ get_valor(conta) = RMul(get_valor(interno), UmMaisTaxa(Topo(conta).tipo))
            /\ (Len(conta) = 3 /\ Classe(interno) = "ImpostoDecorator") =>
                LET b  == conta[1].arg
                    r1 == PercentualImposto(Topo(interno))
                IN  /\ get_valor(conta) =
                            RMul(RMul(b, UmMaisTaxa(Topo(interno).tipo)),
                                 UmMaisTaxa(Topo(conta).tipo))
                    /\ RLt(Zero, b) =>
                            get_valor(conta) # RMul(b, RAdd(R(1, 1), RAdd(r1, r2)))

\* C2 witness: ICMS wrapped by PIS directly over a base of 100
C2_Witness ==
    /\ Len(conta) = 3
    /\ conta[1].arg = R(100, 1)
    /\ conta[2] = No("ImpostoDecorator", "icms", Zero)
    /\ conta[3] = No("ImpostoDecorator", "pis", Zero)
    /\ get_valor(conta) = R(1199470, 10000)

\* C3: tax(fee(base)) >= fee(tax(base)) and the two differ by exactly
\* fee * rate (135.70 against 133.00, 2.70 apart, for b=100, ICMS 18%, fee 15)
C3_OrdemImporta ==
    (/\ Len(conta) = 3
     /\ conta[2].classe = "TaxaIluminacaoDecorator"
     /\ conta[3].classe = "ImpostoDecorator") =>
        LET outra == <<conta[1], conta[3], conta[2]>>
            f     == conta[2].arg
            r     == RMul(IMPOSTOS_DISPONIVEIS[conta[3].tipo][1], R(1, 100))
        IN  /\ RLe(get_valor(outra), get_valor(conta))
            /\ RSub(get_valor(conta), get_valor(outra)) = RMul(f, r)
            /\ (conta[1].arg = R(100, 1) /\ f = R(15, 1) /\ conta[3].tipo = "icms") =>
                    /\ get_valor(conta) = R(13570, 100)
                    /\ get_valor(outra) = R(13300, 100)
                    /\ RSub(get_valor(conta), get_valor(outra)) = R(270, 100)

\* C3 witness: base 100, then fee 15, then ICMS
C3_Witness ==
    /\ Len(conta) = 3
    /\ conta[1].arg = R(100, 1)
    /\ conta[2] = No("TaxaIluminacaoDecorator", "", R(15, 1))
    /\ conta[3] = No("ImpostoDecorator", "icms", Zero)

\* C4: the municipal wrapper adds exactly percentual% of the amount the
\* chain's ContaBase was constructed with, whatever lies in between and
\* whatever the labels
C4_ContribuicaoSobreBaseOriginal ==
    (Decorada /\ Classe(conta) = "ContribuicaoMunicipalDecorator") =>
        LET devida == RMul(conta[1].arg, RMul(Topo(conta).arg, R(1, 100)))
        IN  /\ calcular_contribuicao(conta) = devida
            /\ get_valor(conta) = RAdd(get_valor(Componente(conta)), devida)

\* The flag contribution stated from the price list: (kwh / 100) * price
CustoBandeiraEsperado(no) ==
    LET preco == CASE no.tipo = "verde"     -> R(0, 1)
                   [] no.tipo = "amarela"   -> R(3, 2)
                   [] no.tipo = "vermelha1" -> R(9, 2)
                   [] no.tipo = "vermelha2" -> R(7, 1)
    IN  RMul(RMul(no.arg, R(1, 100)), preco)

\* The flag wrapper's amount and contributions at the two reference points
BandeiraSomaCusto ==
    LET no == Topo(conta)
    IN  /\ get_valor(conta) =
                RAdd(get_valor(Componente(conta)), CustoBandeiraEsperado(no))
        /\ no.tipo = "verde" => CustoBandeiraEsperado(no) = Zero
        /\ (no.tipo = "amarela" /\ no.arg = R(200, 1)) =>
                CustoBandeiraEsperado(no) = R(3, 1)

\* C5 as stated: a flag wrapper adds (kwh / 100) * price to the inner amount
\* and its label is a breakdown key if and only if that contribution is > 0
C5_Original ==
    (Decorada /\ Classe(conta) = "BandeiraDecorator") =>
        /\ BandeiraSomaCusto
        /\ NomeBandeira(Topo(conta)) \in Chaves(get_detalhamento(conta))
                <=> RLt(Zero, CustoBandeiraEsperado(Topo(conta)))

\* C5 amended: a flag wrapper adds (kwh / 100) * price to the inner amount;
\* it writes its label, with the contribution as value, into the breakdown if
\* and only if the contribution is > 0 and otherwise returns the inner
\* breakdown as it is, so its label is a key exactly when the contribution is
\* > 0 or the inner breakdown already has that key
C5_BandeiraAmended ==
    (Decorada /\ Classe(conta) = "BandeiraDecorator") =>
        LET no      == Topo(conta)
            custo   == CustoBandeiraEsperado(no)
            dentro  == get_detalhamento(Componente(conta))
            fora    == get_detalhamento(conta)
        IN  /\ BandeiraSomaCusto
            /\ RLt(Zero, custo) =>
                    /\ NomeBandeira(no) \in Chaves(fora)
                    /\ DictGet(fora, NomeBandeira(no)) = custo
                    /\ \A i \in 1..Len(dentro) :
                            dentro[i][1] # NomeBandeira(no) => fora[i] = dentro[i]
            /\ ~RLt(Zero, custo) => fora = dentro
            /\ NomeBandeira(no) \in Chaves(fora)
                    <=> (RLt(Zero, custo) \/ NomeBandeira(no) \in Chaves(dentro))

\* C5 witness: yellow at 200 kWh on top: 3.00 under "Bandeira Amarela"
C5_Witness ==
    /\ Decorada
    /\ Topo(conta) = No("BandeiraDecorator", "amarela", R(200, 1))
    /\ DictGet(get_detalhamento(conta), "Bandeira Amarela") = R(3, 1)
    /\ "Bandeira Amarela" \notin Chaves(get_detalhamento(Componente(conta)))

\* C6: adding any wrapper whose construction succeeds never lowers the amount
C6_TotalNaoDecresce ==
    Decorada => RLe(get_valor(Componente(conta)), get_valor(conta))

---------------------------------------------------------------------------
(* Properties of the strategies and their context, checked under SpecCalc *)

RMax(a, b) == IF RLt(a, b) THEN b ELSE a

\* The last operation was a calcular_conta that returned, with strategy e bound
Calculou(e) == op.nome = "calcular_conta" /\ erro = "" /\ estrategia = e

\* C7: for c >= 0 the residential total is
\* 0.50*min(c,100) + 0.65*min(max(c-100,0),200) + 0.85*max(c-300,0) and the
\* breakdown has exactly one entry, equal to the tier's contribution, per tier
\* of consumed width > 0 (none, 1, 2 or 3 entries for c = 0, c <= 100,
\* c <= 300, c > 300)
C7_Residencial ==
    Calculou("CalculoResidencial") =>
        LET c  == op.kwh
            w1 == RMin(c, R(100, 1))
            w2 == RMin(RMax(RSub(c, R(100, 1)), Zero), R(200, 1))
            w3 == RMax(RSub(c, R(300, 1)), Zero)
            v1 == RMul(R(1, 2), w1)
            v2 == RMul(R(13, 20), w2)
            v3 == RMul(R(17, 20), w3)
            todas == << <<"Faixa 1 (0-100 kWh)", v1, w1>>,
                        <<"Faixa 2 (101-300 kWh)", v2, w2>>,
                        <<"Faixa 3 (>300 kWh)", v3, w3>> >>
            usadas == SelectSeq(todas, LAMBDA f : RLt(Zero, f[3]))
        IN  /\ resultado[1] = RAdd(RAdd(v1, v2), v3)
            /\ resultado[2] = [i \in 1..Len(usadas) |-> <<usadas[i][1], usadas[i][2]>>]
            /\ Len(resultado[2]) =
                    IF c = Zero THEN 0
                    ELSE IF RLe(c, R(100, 1)) THEN 1
                    ELSE IF RLe(c, R(300, 1)) THEN 2 ELSE 3

\* C7 witness: 301 kWh, three tiers used, 180.85
C7_Witness ==
    /\ Calculou("CalculoResidencial")
    /\ op.kwh = R(301, 1)
    /\ Len(resultado[2]) = 3
    /\ resultado[1] = R(18085, 100)

\* C8: for c >= 0 the commercial strategy takes one discount off c*0.75:
\* 10% when c > 1000, else 5% when c > 500, else none (none at 500, 5% at
\* 1000); the breakdown has the base line always and a negative discount line
\* only when a discount applies; total = base - discount
C8_Comercial ==
    Calculou("CalculoComercial") =>
        LET c    == op.kwh
            base == RMul(c, R(3, 4))
            taxa == IF RLt(R(1000, 1), c) THEN R(1, 10)
                    ELSE IF RLt(R(500, 1), c) THEN R(1, 20) ELSE Zero
            desconto == RMul(base, taxa)
            d    == resultado[2]
        IN  /\ resultado[1] = RSub(base, desconto)
            /\ d[1] = <<"Consumo Base", base>>
            /\ IF taxa = Zero
               THEN Len(d) = 1
               ELSE /\ Len(d) = 2
                    /\ d[2][2] = RNeg(desconto)
                    /\ RLt(d[2][2], Zero)
                    /\ d[2][1] = IF RLt(R(1000, 1), c) THEN "Desconto (>1000 kWh)"
                                 ELSE "Desconto (>500 kWh)"
            /\ c = R(500, 1) => resultado[1] = R(375, 1) /\ Len(d) = 1
            /\ c = R(1000, 1) => resultado[1] = R(7125, 10)
            /\ c = R(600, 1) => resultado[1] = R(42750, 100)
            /\ c = R(1500, 1) => resultado[1] = R(101250, 100)

\* C8 witness: 1000 kWh, the 5% tier: 712.50 with a discount line of -37.50
C8_Witness ==
    /\ Calculou("CalculoComercial")
    /\ op.kwh = R(1000, 1)
    /\ resultado[2] = << <<"Consumo Base", R(750, 1)>>,
                         <<"Desconto (>500 kWh)", R(-375, 10)>> >>

\* C9: for c >= 0 the industrial breakdown always has the demand charge at
\* exactly 25.00; the discount (18% when c > 5000, else 12% when c > 2000,
\* else none) is taken on c*0.60 only; total = c*0.60 - discount + 25.00
C9_Industrial ==
    Calculou("CalculoIndustrial") =>
        LET c       == op.kwh
            consumo == RMul(c, R(3, 5))
            taxa    == IF RLt(R(5000, 1), c) THEN R(18, 100)
                       ELSE IF RLt(R(2000, 1), c) THEN R(12, 100) ELSE Zero
            desconto == RMul(consumo, taxa)
            d       == resultado[2]
        IN  /\ resultado[1] = RAdd(RSub(consumo, desconto), R(25, 1))
            /\ "Tarifa de Demanda" \in Chaves(d)
            /\ DictGet(d, "Tarifa de Demanda") = R(25, 1)
            /\ DictGet(d, "Consumo Base") = consumo
            /\ IF taxa = Zero
               THEN Len(d) = 2
               ELSE Len(d) = 3 /\ d[3][2] = RNeg(desconto)
            /\ c = R(1000, 1) => resultado[1] = R(625, 1)

\* C9 witness: 5001 kWh, the 18% tier, 2485.492
C9_Witness ==
    /\ Calculou("CalculoIndustrial")
    /\ op.kwh = R(5001, 1)
    /\ Len(resultado[2]) = 3
    /\ resultado[1] = R(2485492, 1000)

\* C10: calcular_conta raises for every kwh < 0 without invoking the bound
\* strategy, and for every kwh >= 0 invokes it once and returns exactly its
\* total and breakdown together with its description
C10_CalcularConta ==
    [][op'.nome = "calcular_conta" =>
            IF RLt(op'.kwh, Zero)
            THEN /\ erro' = "ValueError"
                 /\ resultado' = Nenhum
                 /\ chamadas' = chamadas
                 /\ estrategia' = estrategia
            ELSE /\ erro' = ""
                 /\ chamadas' = chamadas + 1
                 /\ estrategia' = estrategia
                 /\ resultado' =
                        CASE estrategia = "CalculoResidencial" ->
                                <<CalcularResidencial(op'.kwh)[1],
                                  CalcularResidencial(op'.kwh)[2],
                                  "Residencial - Tarifação Progressiva">>
                          [] estrategia = "CalculoComercial" ->
                                <<CalcularComercial(op'.kwh)[1],
                                  CalcularComercial(op'.kwh)[2],
                                  "Comercial - Tarifa Fixa com Desconto por Volume">>
                          [] estrategia = "CalculoIndustrial" ->
                                <<CalcularIndustrial(op'.kwh)[1],
                                  CalcularIndustrial(op'.kwh)[2],
                                  "Industrial - Tarifa Especial com Demanda">>
      ]_vars

\* C10 witness: a call with kwh < 0 has just raised, after one call that
\* reached the strategy; the count of strategy invocations is still 1
C10_Witness ==
    /\ op.nome = "calcular_conta"
    /\ RLt(op.kwh, Zero)
    /\ erro = "ValueError"
    /\ resultado = Nenhum
    /\ chamadas = 1

\* What a call of the strategy e on kwh returns through the context
ResultadoDe(e, kwh) ==
    CASE e = "CalculoResidencial" ->
            <<CalcularResidencial(kwh)[1], CalcularResidencial(kwh)[2],
              "Residencial - Tarifação Progressiva">>
      [] e = "CalculoComercial" ->
            <<CalcularComercial(kwh)[1], CalcularComercial(kwh)[2],
              "Comercial - Tarifa Fixa com Desconto por Volume">>
      [] e = "CalculoIndustrial" ->
            <<CalcularIndustrial(kwh)[1], CalcularIndustrial(kwh)[2],
              "Industrial - Tarifa Especial com Demanda">>

\* C11: every calcular_conta that returns gives the total, breakdown and
\* label of the strategy handed to the most recent set_estrategia (or to
\* the constructor when there was none), and a set_estrategia leaves the
\* result returned by the earlier call as it was
C11_TrocaDeEstrategia ==
    [][/\ (op'.nome = "calcular_conta" /\ erro' = "") =>
              resultado' = ResultadoDe(ligada, op'.kwh)
       /\ op'.nome = "set_estrategia" =>
              /\ resultado' = resultado
              /\ chamadas' = chamadas
      ]_vars

\* C11 witness: the second call has returned the industrial result after a
\* rebind to the industrial strategy (test_troca_dinamica_estrategia: 100 kWh
\* gives 50.00 residential, then 100 kWh gives 85.00 industrial)
C11_Witness ==
    /\ op.nome = "calcular_conta"
    /\ erro = ""
    /\ chamadas = 2
    /\ ligada = "CalculoIndustrial"
    /\ op.kwh = R(100, 1)
    /\ resultado = << R(85, 1),
                      << <<"Consumo Base", R(60, 1)>>,
                         <<"Tarifa de Demanda", R(25, 1)>> >>,
                      "Industrial - Tarifa Especial com Demanda" >>

---------------------------------------------------------------------------
(* Properties of the rate table *)

\* Thread t has returned normally from method m
Retornou(t, m) == Ocioso(t) /\ threads[t].metodo = m /\ threads[t].exc = ""

\* The object o has every attribute __init__ gives it
Inicializado(o) == objetos[o].tem = Atributos \cup {"_initialized"}

\* C12: between two reset_instance calls every access path returns the one
\* object cls._instance, fully initialised, and a rate, flag price or month
\* set through a reference of that period is what a read through any
\* reference of that period returns, whatever constructions and accesses
\* happened in between
C12_MesmaInstancia ==
    /\ refsEpoca \subseteq {instance}
    /\ \A o \in refsEpoca : Inicializado(o)
    /\ \A t \in DOMAIN threads :
        /\ (Ocioso(t) /\ threads[t].metodo \in Acessos) =>
                /\ threads[t].ref = instance
                /\ threads[t].ref # 0
        /\ (threads[t].self \in refsEpoca /\ gravado.ref \in refsEpoca) =>
                /\ (Retornou(t, "get_tarifa") /\ gravado.campo = "tarifa"
                        /\ threads[t].chave = gravado.chave) =>
                            threads[t].ret = gravado.valor
                /\ (Retornou(t, "get_bandeira") /\ gravado.campo = "bandeira"
                        /\ threads[t].chave = gravado.chave) =>
                            threads[t].ret = gravado.valor
                /\ (Retornou(t, "get_mes_referencia") /\ gravado.campo = "mes") =>
                            threads[t].txt = gravado.txt

\* C12 witness: after a reset_instance the thread holds the references to
\* the discarded and to the current object, and reads 0.55 for the first
\* residential tier, the price set through a reference to the current one
C12_Witness ==
    /\ Retornou(1, "get_tarifa")
    /\ threads[1].refs = {1, 2}
    /\ refsEpoca = {2}
    /\ threads[1].self = 2
    /\ gravado = [campo |-> "tarifa", chave |-> "residencial_faixa1",
                  valor |-> R(55, 100), txt |-> "", ref |-> 2]
    /\ threads[1].ret = R(55, 100)

\* C13: when the threads make their first access concurrently, at most one
\* object is ever allocated, and every access that has returned handed out
\* that object (never None, never a second one)
C13_PrimeiroAcessoConcorrente ==
    /\ Len(objetos) <= 1
    /\ \A t \in DOMAIN threads :
            (Ocioso(t) /\ threads[t].metodo \in Acessos) =>
                /\ threads[t].ref # 0
                /\ threads[t].ref = instance
                /\ \A u \in DOMAIN threads :
                        (Ocioso(u) /\ threads[u].metodo \in Acessos) =>
                            threads[u].ref = threads[t].ref

\* C13 witness: every thread has returned from its first access with the one
\* object, thread 1 from the constructor and thread 2 from get_instance,
\* after two of them ran the body of __init__ at the same time (two ticks)
C13_Witness ==
    /\ \A t \in DOMAIN threads : Ocioso(t) /\ threads[t].ref = 1
    /\ threads[1].metodo = "TabelaTarifariaManager"
    /\ threads[2].metodo = "get_instance"
    /\ Len(objetos) = 1
    /\ relogio = 2

\* Every thread has made its one call, a successful atualizar_tarifa
TodasAtualizaram == \A t \in DOMAIN threads : Retornou(t, "atualizar_tarifa")

\* C14: once each of the threads has returned from its one atualizar_tarifa
\* call with a valid price, under any interleaving, the table holds the
\* default keys and every written key; a key written by one thread holds
\* that thread's price, a key written by several holds the price of one of
\* them
C14_AtualizacoesConcorrentes ==
    TodasAtualizaram =>
        LET d == objetos[1].tarifas
        IN  /\ Chaves(d) = Chaves(carregar_tarifas_padrao)
                                \cup {threads[t].chave : t \in DOMAIN threads}
            /\ Len(d) = Cardinality(Chaves(d))
            /\ \A t \in DOMAIN threads :
                    \E u \in DOMAIN threads :
                        /\ threads[u].chave = threads[t].chave
                        /\ DictGet(d, threads[t].chave) = threads[u].valor
            /\ \A k \in Chaves(carregar_tarifas_padrao) :
                    DictGet(d, k) = DictGet(carregar_tarifas_padrao, k)

\* C14 witness: the threads wrote the fresh keys nova_a and nova_b, and both
\* are in the table with the prices written, 0.10 and 0.30
C14_Witness ==
    /\ TodasAtualizaram
    /\ {threads[t].chave : t \in DOMAIN threads} = {"nova_a", "nova_b"}
    /\ {"nova_a", "nova_b"} \subseteq Chaves(objetos[1].tarifas)
    /\ DictGet(objetos[1].tarifas, "nova_a") = R(10, 100)
    /\ DictGet(objetos[1].tarifas, "nova_b") = R(30, 100)
    /\ Len(objetos[1].tarifas) = 8

\* C15: every snapshot exportar_configuracao returns is the export of a
\* content the table had between two mutations while the export ran: its
\* month, timestamp, rates and flags never mix the values from before and
\* after one mutation
C15_ExportacaoSemMistura ==
    [][\A t \in DOMAIN threads :
            (/\ threads[t].metodo = "exportar_configuracao"
             /\ ~Ocioso(t)
             /\ threads'[t].pc = "ocioso"
             /\ threads'[t].exc = "") =>
                threads'[t].snap \in {Exportado(c[2]) : c \in consistentes}
      ]_vars

\* C16: a call of atualizar_tarifa or atualizar_bandeira with a price < 0,
\* on an existing key or a new one, raises ValueError at once and leaves
\* every table as it was (rates, flag prices, month and timestamp), takes
\* no lock and no timestamp
C16_PrecoNegativoRejeitado ==
    [][\A t \in DOMAIN threads :
            (/\ Ocioso(t)
             /\ threads'[t] # threads[t]
             /\ threads'[t].metodo \in {"atualizar_tarifa", "atualizar_bandeira"}
             /\ RLt(threads'[t].valor, Zero)) =>
                /\ threads'[t].pc = "ocioso"
                /\ threads'[t].exc = "ValueError"
                /\ objetos' = objetos
                /\ lock' = lock
                /\ relogio' = relogio
      ]_vars

\* C16 witness: atualizar_tarifa('nova_tarifa', -0.01) has raised on a table
\* that was updated once before (timestamp 2): the key is still absent
C16_Witness ==
    /\ Ocioso(1)
    /\ threads[1].metodo = "atualizar_tarifa"
    /\ threads[1].chave = "nova_tarifa"
    /\ threads[1].valor = R(-1, 100)
    /\ threads[1].exc = "ValueError"
    /\ "nova_tarifa" \notin Chaves(objetos[1].tarifas)
    /\ objetos[1].data_atualizacao = 2
    /\ lock = 0

\* C17: whatever operations were called, failed ones included, every price
\* stored in the rates and in the flags of every table is >= 0
C17_PrecosNaoNegativos ==
    \A o \in DOMAIN objetos :
        /\ \A i \in DOMAIN objetos[o].tarifas :
                ~RLt(objetos[o].tarifas[i][2], Zero)
        /\ \A i \in DOMAIN objetos[o].bandeiras :
                ~RLt(objetos[o].bandeiras[i][2], Zero)

\* C18: no statement of resetar_tarifas_padrao changes the reference month,
\* and when the call returns the rates and the flags of the table are
\* exactly the built-in defaults, six rates and four flags (first
\* residential tier 0.50, yellow 1.50), whatever the table held before
C18_ResetarRestauraPadrao ==
    [][\A t \in DOMAIN threads :
            (threads[t].metodo = "resetar_tarifas_padrao" /\ ~Ocioso(t)) =>
                LET antes  == objetos[threads[t].self]
                    depois == objetos'[threads[t].self]
                IN  /\ depois.mes_referencia = antes.mes_referencia
                    /\ threads'[t].pc = "ocioso" =>
                        /\ threads'[t].exc = ""
                        /\ depois.tarifas = carregar_tarifas_padrao
                        /\ depois.bandeiras = carregar_bandeiras_padrao
                        /\ Len(depois.tarifas) = 6
                        /\ Len(depois.bandeiras) = 4
                        /\ DictGet(depois.tarifas, "residencial_faixa1") = R(50, 100)
                        /\ DictGet(depois.bandeiras, "amarela") = R(150, 100)
      ]_vars

\* C18 witness: resetar_tarifas_padrao has returned on a table whose month
\* had been set to 12/2026 and whose rates had gained the key nova_tarifa
\* (the snapshot exported before the reset still shows both)
C18_Witness ==
    /\ Retornou(1, "resetar_tarifas_padrao")
    /\ threads[1].snap.campos # {}
    /\ "nova_tarifa" \in Chaves(threads[1].snap.tarifas)
    /\ threads[1].snap.mes_referencia = "12/2026"
    /\ objetos[1].tarifas = carregar_tarifas_padrao
    /\ objetos[1].bandeiras = carregar_bandeiras_padrao
    /\ objetos[1].mes_referencia = "12/2026"

\* The fields importar_configuracao looks at
CamposImportados == {"mes_referencia", "tarifas", "bandeiras"}

\* C19: the snapshot S that exportar_configuracao returns holds the month,
\* the rates and the flags the table has at that moment, and whenever
\* importar_configuracao(S) returns, after whatever mutations came in
\* between, the table's month, rates and flags are exactly those of S
C19_ExportarImportar ==
    [][\A t \in DOMAIN threads :
            /\ (threads[t].metodo = "exportar_configuracao" /\ ~Ocioso(t)
                    /\ threads'[t].pc = "ocioso") =>
                        /\ threads'[t].exc = ""
                        /\ threads'[t].snap = Exportado(Estado(threads[t].self))
            /\ (threads[t].metodo = "importar_configuracao" /\ ~Ocioso(t)
                    /\ threads'[t].pc = "ocioso"
                    /\ threads[t].dados = threads[t].snap
                    /\ CamposImportados \subseteq threads[t].snap.campos) =>
                        LET S      == threads[t].snap
                            depois == objetos'[threads[t].self]
                        IN  /\ threads'[t].exc = ""
                            /\ depois.tarifas = S.tarifas
                            /\ depois.bandeiras = S.bandeiras
                            /\ depois.mes_referencia = S.mes_referencia
      ]_vars

\* C19 witness: the snapshot was exported at timestamp 2 with the key
\* nova_tarifa in the rates, the table was mutated once, and the import of the
\* snapshot has returned at timestamp 4 with the rates of the snapshot
C19_Witness ==
    /\ Retornou(1, "importar_configuracao")
    /\ threads[1].dados = threads[1].snap
    /\ threads[1].snap.data_atualizacao = isoformat(2)
    /\ "nova_tarifa" \in Chaves(threads[1].snap.tarifas)
    /\ "nova_tarifa" \notin Chaves(threads[1].antes.tarifas)
    /\ objetos[1].data_atualizacao = 4
    /\ objetos[1].tarifas = threads[1].snap.tarifas
    /\ objetos[1].bandeiras = threads[1].snap.bandeiras
    /\ objetos[1].mes_referencia = threads[1].snap.mes_referencia

\* C20: when importar_configuracao(config) has returned, each of month,
\* rates and flags that config has is the table's value as a whole (no key
\* of the old mapping survives), each one config lacks is what the table
\* held before the call, and the timestamp is a new one, taken by this
\* call, also when config is empty
C20_ImportarSoCamposPresentes ==
    \A t \in DOMAIN threads :
        Retornou(t, "importar_configuracao") =>
            LET config == threads[t].dados
                antes  == threads[t].antes
                depois == objetos[threads[t].self]
            IN  /\ \A campo \in CamposImportados :
                        depois[campo] = IF campo \in config.campos
                                        THEN config[campo] ELSE antes[campo]
                /\ depois.data_atualizacao = relogio
                /\ depois.data_atualizacao > antes.data_atualizacao
                /\ lock = 0

\* C20 witness: the import of the empty configuration has returned on a
\* table that had the key nova_tarifa added: rates, flags and month are as
\* before and the timestamp went from 2 to 3
C20_Witness ==
    /\ Retornou(1, "importar_configuracao")
    /\ threads[1].dados.campos = {}
    /\ "nova_tarifa" \in Chaves(objetos[1].tarifas)
    /\ objetos[1].tarifas = threads[1].antes.tarifas
    /\ objetos[1].bandeiras = threads[1].antes.bandeiras
    /\ objetos[1].mes_referencia = threads[1].antes.mes_referencia
    /\ threads[1].antes.data_atualizacao = 2
    /\ objetos[1].data_atualizacao = 3

---------------------------------------------------------------------------
(* Properties of the rate table together with the billing *)

\* The price the table holds now for a rate key / for a flag
TarifaAtual(k) == DictGet(objetos[instance].tarifas, k)
BandeiraAtual(k) == DictGet(objetos[instance].bandeiras, k)

\* C21: every base amount the pricing context computes and every flag
\* surcharge a new flag wrapper adds is calculated with the price the rate
\* table holds at that moment: commercial consumption up to 500 kWh costs
\* kwh times the table's comercial_base, residential consumption up to 100
\* kWh costs kwh times the table's residencial_faixa1, and a flag wrapper
\* adds kwh/100 times the table's price of its flag
C21_FaturaUsaTabelaAtual ==
    [][/\ (op'.nome = "calcular_conta" /\ erro' = ""
                /\ estrategia = "CalculoComercial"
                /\ RLe(op'.kwh, R(500, 1))) =>
            resultado'[1] = RMul(op'.kwh, TarifaAtual("comercial_base"))
       /\ (op'.nome = "calcular_conta" /\ erro' = ""
                /\ estrategia = "CalculoResidencial"
                /\ RLe(op'.kwh, R(100, 1))) =>
            resultado'[1] = RMul(op'.kwh, TarifaAtual("residencial_faixa1"))
       /\ (Len(conta') = Len(conta) + 1
                /\ Topo(conta').classe = "BandeiraDecorator") =>
            RSub(get_valor(conta'), get_valor(conta)) =
                RMul(RMul(Topo(conta').arg, R(1, 100)),
                     BandeiraAtual(Topo(conta').tipo))
      ]_vars

\* The operations that change a table
Mutadores ==
    {"atualizar_tarifa", "atualizar_bandeira", "set_mes_referencia",
     "resetar_tarifas_padrao", "importar_configuracao"}

\* C22: whenever a mutation of the table ends with an exception, a rejected
\* setter or an import that raises partway, the lock is free and the table
\* holds the month, rates, flags and timestamp it held before the call
C22_FalhaNaoAplicaParcialmente ==
    [][\A t \in DOMAIN threads :
            (/\ threads'[t] # threads[t]
             /\ threads'[t].pc = "ocioso"
             /\ threads'[t].exc # ""
             /\ threads'[t].metodo \in Mutadores) =>
                /\ lock' = 0
                /\ IF threads'[t].metodo = "importar_configuracao"
                   THEN EstadoDe(objetos'[threads'[t].self]) =
                            EstadoDe(threads'[t].antes)
                   ELSE objetos' = objetos
      ]_vars


----------------------------------------------------------------------------
(* Properties of the dicts handed across the interface *)

\* The writes a caller makes into a dict it holds
MutacoesDoChamador == {"mutar_mapa", "mutar_snapshot", "mutar_configuracao"}

\* Thread t writes into a dict it holds in this step
MutouMapa(t) ==
    /\ threads'[t].metodo \in MutacoesDoChamador
    /\ threads'[t] # threads[t]

\* C23: every dict handed across the interface is an independent copy: a
\* write of the caller into the result of get_todas_tarifas,
\* get_todas_bandeiras, exportar_configuracao or get_detalhamento, or into a
\* configuration after it was handed to importar_configuracao, changes no
\* table and no result of the chain.
C23_CopiasIndependentes ==
    [][\A t \in DOMAIN threads :
            MutouMapa(t) =>
                /\ objetos' = objetos
                /\ conta' = conta]_vars

\* The caller wrote into the result of a getter, into an exported snapshot
\* and into the configuration it had imported, and the table has the
\* imported rates without the written key
C23_CopiasIndependentes_Witness ==
    /\ threads[1].metodo = "mutar_configuracao"
    /\ "intruso" \in Chaves(threads[1].dados.tarifas)
    /\ "intruso" \in Chaves(threads[1].snap.tarifas)
    /\ "intruso" \in Chaves(threads[1].mapa.valor)
    /\ objetos[1].tarifas = << <<"comercial_base", R(70, 100)>> >>


----------------------------------------------------------------------------
(* Properties of the assembly of a complete chain *)

\* The chain built by hand in the canonical order
ContaManual(valor_base, kwh, tipo_bandeira, incluir_impostos, incluir_taxa_iluminacao) ==
    <<No("ContaBase", "Consumo de Energia", valor_base),
      No("BandeiraDecorator", tipo_bandeira, kwh)>>
    \o (IF incluir_impostos
        THEN <<No("ImpostoDecorator", "pis_cofins", Zero),
               No("ImpostoDecorator", "icms", Zero)>>
        ELSE <<>>)
    \o (IF incluir_taxa_iluminacao
        THEN <<No("TaxaIluminacaoDecorator", "", R(15, 1))>>
        ELSE <<>>)

\* The breakdown keys of the tax wrappers
ChavesImposto == {IMPOSTOS_DISPONIVEIS[i][2] : i \in DOMAIN IMPOSTOS_DISPONIVEIS}

\* C24: criar_conta_completa returns a chain with the amount, description
\* and breakdown of the chain built by hand as flag surcharge, PIS/COFINS and
\* ICMS only when incluir_impostos, fee of 15.00 only when
\* incluir_taxa_iluminacao; with a flag off no breakdown key of the omitted
\* kind appears.
C24_FabricaCanonica ==
    [][\A e \in EntradasFabrica, imp \in BOOLEAN, taxa \in BOOLEAN :
          (/\ criar_conta_completa(e[1], e[2], e[3], imp, taxa)
           /\ erro' = "")
          => LET manual == ContaManual(e[1], e[2], e[3], imp, taxa)
             IN  /\ get_valor(conta') = get_valor(manual)
                 /\ get_descricao(conta') = get_descricao(manual)
                 /\ get_detalhamento(conta') = get_detalhamento(manual)
                 /\ ~imp => Chaves(get_detalhamento(conta')) \cap ChavesImposto = {}
                 /\ ~taxa => NomeTaxaIluminacao \notin Chaves(get_detalhamento(conta'))
                 /\ imp => {"PIS/COFINS (9,25%)", "ICMS (18%)"}
                                \subseteq Chaves(get_detalhamento(conta'))
                 /\ taxa => /\ NomeTaxaIluminacao \in Chaves(get_detalhamento(conta'))
                            /\ DictGet(get_detalhamento(conta'), NomeTaxaIluminacao)
                                    = R(15, 1)]_vars

\* The complete chain on a base of 100.00 with 300 kWh under the yellow flag
C24_FabricaCanonica_Witness ==
    /\ erro = ""
    /\ Len(conta) = 5
    /\ conta[1].arg = R(100, 1)
    /\ conta[2] = No("BandeiraDecorator", "amarela", R(300, 1))
    /\ Topo(conta).classe = "TaxaIluminacaoDecorator"


----------------------------------------------------------------------------
(* Properties of the construction of chain elements *)

\* The step is a construction that raised: no element was made
Rejeitada == erro' = "ValueError" /\ conta' = conta

\* The step is a construction that returned the element no around conta
Aceita(no) ==
    /\ erro' = ""
    /\ conta' = Append(conta, no)
    /\ Componente(conta') = conta

\* C25: construction of a chain element rejects a base amount < 0, a fee
\* < 0, a municipal percentage < 0 or > 100, an unknown flag name and an
\* unknown tax kind with ValueError, accepts every other parameter (0 and
\* 100 included), and a failed construction leaves the inner component's
\* amount, description and breakdown as they were.
C25_ConstrucaoValidada ==
    [][/\ \A v \in ValoresBase, d \in DescricoesBase :
            NovaContaBase(v, d) =>
                IF RLt(v, Zero) THEN Rejeitada
                ELSE erro' = "" /\ conta' = <<No("ContaBase", d, v)>>
       /\ \A b \in EntradasBandeira :
            DecorarBandeira(b[1], b[2]) =>
                IF b[1] \notin {"verde", "amarela", "vermelha1", "vermelha2"}
                THEN Rejeitada
                ELSE Aceita(No("BandeiraDecorator", b[1], b[2]))
       /\ \A i \in EntradasImposto :
            DecorarImposto(i) =>
                IF i \notin {"icms", "pis", "cofins", "pis_cofins"}
                THEN Rejeitada
                ELSE Aceita(No("ImpostoDecorator", i, Zero))
       /\ \A v \in ValoresTaxa :
            DecorarTaxaIluminacao(v) =>
                IF RLt(v, Zero) THEN Rejeitada
                ELSE Aceita(No("TaxaIluminacaoDecorator", "", v))
       /\ \A p \in PercentuaisContribuicao :
            DecorarContribuicao(p) =>
                IF RLt(p, Zero) \/ RLt(R(100, 1), p) THEN Rejeitada
                ELSE Aceita(No("ContribuicaoMunicipalDecorator", "", p))
       /\ (conta # <<>> /\ erro' = "ValueError") =>
                /\ conta' # <<>>
                /\ get_valor(conta') = get_valor(conta)
                /\ get_descricao(conta') = get_descricao(conta)
                /\ get_detalhamento(conta') = get_detalhamento(conta)]_vars

\* A base of 100.00 wrapped with the municipal percentage 100, on which a
\* construction has then been rejected
C25_ConstrucaoValidada_Witness ==
    /\ erro = "ValueError"
    /\ Len(conta) = 2
    /\ conta[1].arg = R(100, 1)
    /\ conta[2] = No("ContribuicaoMunicipalDecorator", "", R(100, 1))


----------------------------------------------------------------------------
(* Properties of the test seam reset_instance *)

\* Thread t returns from an access path in this step
RetornaDoAcesso(t) ==
    /\ threads[t].metodo \in Acessos
    /\ ~Ocioso(t)
    /\ threads'[t].pc = "ocioso"

\* C26: the first access that returns after reset_instance, through any
\* path, hands out a new object, different from every discarded one, with
\* the default rates and flag prices whatever was done to the discarded
\* ones; and a mutator called through a reference to a discarded object
\* changes nothing of the current one.
C26_ResetInstance ==
    [][\A t \in DOMAIN threads :
        /\ (RetornaDoAcesso(t) /\ refsEpoca = {}) =>
                LET novo == threads'[t].ref
                IN  /\ novo # 0
                    /\ novo = instance'
                    /\ novo \notin threads[t].refs
                    /\ objetos'[novo].tarifas = carregar_tarifas_padrao
                    /\ objetos'[novo].bandeiras = carregar_bandeiras_padrao
                    /\ \A o \in threads[t].refs : objetos'[o] = objetos[o]
        /\ (/\ threads[t].metodo \in Mutadores
            /\ ~Ocioso(t)
            /\ instance # 0
            /\ threads[t].self # instance) =>
                /\ instance' = instance
                /\ objetos'[instance] = objetos[instance]]_vars

\* After a reset the thread holds the discarded object 1 and the current
\* object 2, has set the first residential tier to 0.55 through the stale
\* reference after object 2 was constructed, and reads the default 0.50
\* through the current one
C26_ResetInstance_Witness ==
    /\ Retornou(1, "get_tarifa")
    /\ threads[1].refs = {1, 2}
    /\ instance = 2
    /\ threads[1].self = 2
    /\ threads[1].chave = "residencial_faixa1"
    /\ threads[1].ret = R(50, 100)
    /\ DictGet(objetos[1].tarifas, "residencial_faixa1") = R(55, 100)
    /\ objetos[1].data_atualizacao > objetos[2].data_atualizacao


----------------------------------------------------------------------------
(* Properties of the instance handed out under concurrency *)

\* C27: under any interleaving of first accesses and resets, an access that
\* has returned handed out an object, not None, whose rates, flags, month
\* and timestamp are set, and a get_tarifa on a default key issued right
\* after it succeeds.
C27_InstanciaUtilizavel ==
    \A t \in DOMAIN threads :
        /\ (Ocioso(t) /\ threads[t].metodo \in Acessos) =>
                /\ threads[t].ref # 0
                /\ Atributos \subseteq objetos[threads[t].ref].tem
        /\ (/\ Ocioso(t)
            /\ threads[t].metodo = "get_tarifa"
            /\ threads[t].chave \in Chaves(carregar_tarifas_padrao)) =>
                threads[t].exc = ""


\* Thread t executes self._initialized = True in this step
MarcaInicializado(t) ==
    /\ NoAcesso(t)
    /\ threads[t].pc = "init_marca"
    /\ threads'[t].pc = "init_tarifas"

\* C28: the body of __init__ runs at most once per object even when several
\* threads construct the table for the first time concurrently, so the
\* price of an atualizar_tarifa that has returned is not overwritten with
\* the default by a constructor that is still running.
C28_InicializacaoUnica ==
    /\ [][\A t \in DOMAIN threads :
            MarcaInicializado(t) => ~hasattr(threads[t].self, "_initialized")]_vars
    /\ [](\A t \in DOMAIN threads :
            Retornou(t, "atualizar_tarifa") =>
                /\ hasattr(threads[t].self, "_tarifas")
                /\ DictGet(objetos[threads[t].self].tarifas, threads[t].chave)
                        = threads[t].valor)


----------------------------------------------------------------------------
(* Properties of the totals as consumption grows *)

\* The smaller consumptions a total is compared with
Menores(c) == {c1 \in Consumos : RLe(Zero, c1) /\ RLt(c1, c)}

\* The volume-discount band of consumption c under strategy e
FaixaDesconto(e, c) ==
    CASE e = "CalculoResidencial" -> 0
      [] e = "CalculoComercial" ->
            IF RLt(R(1000, 1), c) THEN 2 ELSE IF RLt(R(500, 1), c) THEN 1 ELSE 0
      [] e = "CalculoIndustrial" ->
            IF RLt(R(5000, 1), c) THEN 2 ELSE IF RLt(R(2000, 1), c) THEN 1 ELSE 0

\* C29 as stated: for each strategy and all 0 <= c1 < c2 the total at c1 is
\* at most the total at c2, across the discount thresholds too.
C29_TotalCresceComConsumo ==
    \A e \in Estrategias :
        Calculou(e) =>
            \A c1 \in Menores(op.kwh) : RLe(calcular(e, c1)[1], resultado[1])

\* C29 amended: the total grows with consumption for the residential
\* strategy, and for the commercial and industrial strategies between two
\* consumptions of the same discount band; just above a threshold the
\* discount on the whole base makes the total smaller than at the
\* threshold (commercial 501 and 1001 kWh, industrial 2001 and 5001 kWh).
C29_TotalCresceNaFaixa ==
    \A e \in Estrategias :
        Calculou(e) =>
            /\ \A c1 \in Menores(op.kwh) :
                    FaixaDesconto(e, c1) = FaixaDesconto(e, op.kwh) =>
                        RLe(calcular(e, c1)[1], resultado[1])
            /\ (e = "CalculoComercial" /\ op.kwh = R(501, 1)) =>
                    RLt(resultado[1], calcular(e, R(500, 1))[1])
            /\ (e = "CalculoComercial" /\ op.kwh = R(1001, 1)) =>
                    RLt(resultado[1], calcular(e, R(1000, 1))[1])
            /\ (e = "CalculoIndustrial" /\ op.kwh = R(2001, 1)) =>
                    RLt(resultado[1], calcular(e, R(2000, 1))[1])
            /\ (e = "CalculoIndustrial" /\ op.kwh = R(5001, 1)) =>
                    RLt(resultado[1], calcular(e, R(5000, 1))[1])

\* The commercial total at 501 kWh, 356.9625, below the 375.00 of 500 kWh
C29_TotalCresceNaFaixa_Witness ==
    /\ Calculou("CalculoComercial")
    /\ op.kwh = R(501, 1)
    /\ resultado[1] = R(3569625, 10000)
    /\ calcular("CalculoComercial", R(500, 1))[1] = R(375, 1)


----------------------------------------------------------------------------
(* Properties of the lock *)

\* The positions at which a thread is about to enter a with block
PosicoesDeAquisicao == {"adquire", "new_adquire"}

\* The lock is held only by a thread inside a with block: not by one that
\* has returned or raised, and not by one about to acquire it
LockBemUsado ==
    \A t \in DOMAIN threads :
        lock = t => ~Ocioso(t) /\ threads[t].pc \notin PosicoesDeAquisicao

\* C30: the one non-reentrant lock is never acquired by its holder and is
\* released on every exit, normal or by exception, so under any interleaving
\* of constructions, reads, mutations and resets every call returns.
C30_SemDeadlock ==
    /\ []LockBemUsado
    /\ \A t \in 1..NThreads : ~Ocioso(t) ~> Ocioso(t)

\* Both threads have returned and the lock is free, thread 1 from a
\* reset_instance and thread 2 from an importar_configuracao that raised
\* inside its with block after waiting for the lock
C30_SemDeadlock_Witness ==
    /\ Retornou(1, "reset_instance")
    /\ Ocioso(2)
    /\ threads[2].metodo = "importar_configuracao"
    /\ threads[2].exc = "AttributeError"
    /\ lock = 0
    /\ instance = 0

===========================================================================
